---------------------------- MODULE Spec2Model ----------------------------
(***************************************************************************)
(* CarWatchdog performance-stats tools (tools/watchdog/parser):            *)
(*   carwatchdog_dump_parser.py   the data model and the dump parser       *)
(*   perf_stats_proto_utils.py    the bridge to the wire (proto) messages  *)
(*                                                                         *)
(* Python values are modelled as follows.                                  *)
(*   None / an object      <<>> / <<v>>  (a sequence of length 0 or 1)     *)
(*   a list                a sequence                                      *)
(*   an object reference   a record carrying its class in "type"           *)
(*   a float percent       an integer number of thousandths of a percent   *)
(*   a call that may raise a record [exc, val]: exc = "" when it returns   *)
(***************************************************************************)
EXTENDS Integers, Sequences, FiniteSets, TLC

VARIABLES
    \* StatsCollection under construction (data-model specification)
    collection,
    \* SystemEventStats that collections are added to
    system_event,
    \* proto bridge: the PerformanceStats handed to write_pb, the caller's
    \* position, write_pb's arguments and outcome, the two files, and what
    \* read_performance_stats_pb returned
    perf_stats, phase, args, ret, out_file, out_build_file, read_result,
    \* parse_dump: the dump's lines, the cursor, the function whose loop is
    \* running, the section being parsed, and the locals of each frame
    lines, idx, pc, section, performance_stats, system_event_stats,
    cur_collection, package_cpu_stats, package_storage_io_stats, exc,
    \* what parse_dump_to_json returned
    json,
    \* parse_build_info: the lines of the file not read yet, and the
    \* BuildInformation being filled
    build_info_file, build_info,
    \* execute_script: the form of the request, what the Lua engine returned,
    \* and the arguments the page is rendered with
    request, lua_output, response

modelVars == <<collection, system_event>>
bridgeVars == <<perf_stats, phase, args, ret, out_file, out_build_file, read_result>>
parserVars == <<lines, idx, pc, section, performance_stats, system_event_stats,
                cur_collection, package_cpu_stats, package_storage_io_stats, exc>>
jsonVars == <<json>>
buildVars == <<build_info_file, build_info>>
appVars == <<request, lua_output, response>>
vars == <<modelVars, bridgeVars, parserVars, jsonVars, buildVars, appVars>>

None == <<>>
Some(v) == <<v>>

Ok(v) == [exc |-> "", val |-> v]
Raise(e) == [exc |-> e, val |-> None]

(***************************************************************************)
(* Bounds of the model.                                                    *)
(***************************************************************************)
\* counters of a hand-built StatsCollection range over -MaxCounter..MaxCounter
MaxCounter == 1
\* collections held by one PerformanceStats, over all of its aggregates
MaxCollections == 2
\* lines of a dump drawn freely from Alphabet
MaxLines == 4
\* add() calls on one SystemEventStats
MaxAdds == 3
\* lines of a build info file
MaxBuildLines == 2
\* strings in the output array the Lua engine returns
MaxOutputs == 1

(***************************************************************************)
(* Data model: carwatchdog_dump_parser.py                                  *)
(***************************************************************************)
COLLECTION_END_LINE_MIN_LEN == 50

datetime(year, month, day, hour, minute, second, microsecond) ==
    [year |-> year, month |-> month, day |-> day, hour |-> hour,
     minute |-> minute, second |-> second, microsecond |-> microsecond]

ProcessCpuStats(command, cpu_time_ms, package_cpu_time_percent, cpu_cycles) ==
    [command |-> command, cpu_time_ms |-> cpu_time_ms,
     package_cpu_time_percent |-> package_cpu_time_percent,
     cpu_cycles |-> cpu_cycles]

PackageCpuStats(user_id, package_name, cpu_time_ms, total_cpu_time_percent, cpu_cycles) ==
    [user_id |-> user_id, package_name |-> package_name,
     cpu_time_ms |-> cpu_time_ms,
     total_cpu_time_percent |-> total_cpu_time_percent,
     cpu_cycles |-> cpu_cycles, process_cpu_stats |-> <<>>]

PackageStorageIoStats(user_id, package_name, fg_bytes, fg_bytes_percent, fg_fsync, fg_fsync_percent, bg_bytes, bg_bytes_percent, bg_fsync, bg_fsync_percent) ==
    [user_id |-> user_id, package_name |-> package_name,
     fg_bytes |-> fg_bytes, fg_bytes_percent |-> fg_bytes_percent,
     fg_fsync |-> fg_fsync, fg_fsync_percent |-> fg_fsync_percent,
     bg_bytes |-> bg_bytes, bg_bytes_percent |-> bg_bytes_percent,
     bg_fsync |-> bg_fsync, bg_fsync_percent |-> bg_fsync_percent]

\* StatsCollection.__init__.  total_cycles is the attribute that
\* _parse_collection creates on a "Total CPU cycles" line; it does not exist
\* (None here) on an object no such line touched.
StatsCollection ==
    [id |-> -1, date |-> None,
     total_cpu_time_ms |-> 0, total_cpu_cycles |-> 0, idle_cpu_time_ms |-> 0,
     io_wait_time_ms |-> 0, context_switches |-> 0, io_blocked_processes |-> 0,
     major_page_faults |-> 0,
     package_cpu_stats |-> <<>>, package_storage_io_read_stats |-> <<>>,
     package_storage_io_write_stats |-> <<>>,
     total_cycles |-> None]

Counters == {"total_cpu_time_ms", "total_cpu_cycles", "idle_cpu_time_ms",
             "io_wait_time_ms", "context_switches", "io_blocked_processes",
             "major_page_faults"}

\* StatsCollection.is_empty: the counters are summed, and the sum compared to 0
StatsCollection_is_empty(self) ==
    LET val == self.total_cpu_time_ms + self.total_cpu_cycles
               + self.idle_cpu_time_ms + self.io_wait_time_ms
               + self.context_switches + self.io_blocked_processes
               + self.major_page_faults
    IN  /\ self.id = -1
        /\ self.date = None
        /\ val = 0
        /\ self.package_cpu_stats = <<>>
        /\ self.package_storage_io_read_stats = <<>>
        /\ self.package_storage_io_write_stats = <<>>

\* SystemEventStats.__init__ followed by add() of each collection
SystemEventStats(collections) ==
    [type |-> "SystemEventStats", collections |-> collections]

\* SystemEventStats.add
SystemEventStats_add(self, c) ==
    [self EXCEPT !.collections = Append(@, c)]

\* a plain Python list (what SystemEventStats.collections is)
List(items) == [type |-> "list", collections |-> items]

\* a faulty is_empty, any() over the emptiness of the collections where the
\* source has all(): an aggregate without collections is then not empty
SystemEventStats_is_empty_any(self) ==
    \E i \in 1..Len(self.collections) :
        StatsCollection_is_empty(self.collections[i])

\* SystemEventStats.is_empty
SystemEventStats_is_empty(self) ==
    ~ \E i \in 1..Len(self.collections) :
          ~ StatsCollection_is_empty(self.collections[i])

\* PerformanceStats.__init__.  The three attributes without underscore do not
\* exist on a fresh object (None here); _get_perf_stats creates them.
PerformanceStats ==
    [_boot_time_stats |-> None, _last_n_minutes_stats |-> None,
     _user_switch_stats |-> <<>>, _custom_collection_stats |-> None,
     boot_time_stats |-> None, last_n_minutes_stats |-> None,
     custom_collection_stats |-> None]

\* Python truth value of an attribute: None and the empty list are false, any
\* other object (SystemEventStats defines neither __bool__ nor __len__) is true
Truthy(v) == v # None /\ (v[1].type = "list" => v[1].collections # <<>>)

\* "stats and not stats.is_empty()": a list has no is_empty attribute
HasStats(v) ==
    IF ~ Truthy(v) THEN Ok(FALSE)
    ELSE IF v[1].type # "SystemEventStats" THEN Raise("AttributeError")
    ELSE Ok(~ SystemEventStats_is_empty(v[1]))

_has_boot_time_stats(self) == HasStats(self._boot_time_stats)
_has_last_n_minutes_stats(self) == HasStats(self._last_n_minutes_stats)
_has_custom_collection_stats(self) == HasStats(self._custom_collection_stats)

\* a faulty setter: the collections are added to the ones stored before
set_boot_time_stats_merging(self, stats) ==
    [self EXCEPT !._boot_time_stats =
        IF self._boot_time_stats = None THEN Some(stats)
        ELSE Some([stats EXCEPT !.collections =
                      self._boot_time_stats[1].collections \o stats.collections])]

set_boot_time_stats(self, stats) ==
    [self EXCEPT !._boot_time_stats = Some(stats)]
set_last_n_minutes_stats(self, stats) ==
    [self EXCEPT !._last_n_minutes_stats = Some(stats)]
\* stores stats.collections, the list, not the SystemEventStats
set_custom_collection_stats(self, stats) ==
    [self EXCEPT !._custom_collection_stats = Some(List(stats.collections))]

\* get_*_stats: the attribute when _has_*_stats() is true, else None
GetStats(has, v) ==
    IF has.exc # "" THEN Raise(has.exc)
    ELSE IF has.val THEN Ok(v) ELSE Ok(None)

get_boot_time_stats(self) ==
    GetStats(_has_boot_time_stats(self), self._boot_time_stats)
get_last_n_minutes_stats(self) ==
    GetStats(_has_last_n_minutes_stats(self), self._last_n_minutes_stats)
get_custom_collection_stats(self) ==
    GetStats(_has_custom_collection_stats(self), self._custom_collection_stats)

\* PerformanceStats.is_empty: a chain of "and", evaluated left to right and
\* stopped by the first false operand
IsEmptyChain(b, l, c, u) ==
    IF b.exc # "" THEN Raise(b.exc)
    ELSE IF b.val THEN Ok(FALSE)
    ELSE IF l.exc # "" THEN Raise(l.exc)
    ELSE IF l.val THEN Ok(FALSE)
    ELSE IF c.exc # "" THEN Raise(c.exc)
    ELSE IF c.val THEN Ok(FALSE)
    ELSE Ok(~ \E i \in 1..Len(u) : ~ SystemEventStats_is_empty(u[i]))

PerformanceStats_is_empty(self) ==
    IsEmptyChain(_has_boot_time_stats(self), _has_last_n_minutes_stats(self),
                 _has_custom_collection_stats(self), self._user_switch_stats)

\* date.strftime(DATETIME_FORMAT): the text of year, month, day, hour, minute
\* and second, here the six numbers; "" is the text of no number
strftime(date) ==
    [text |-> <<date.year, date.month, date.day, date.hour, date.minute,
                date.second>>]
EmptyText == [text |-> <<>>]

\* vars(p) of a ProcessCpuStats
ProcessCpuStats_vars(p) ==
    [command |-> p.command, cpu_time_ms |-> p.cpu_time_ms,
     package_cpu_time_percent |-> p.package_cpu_time_percent,
     cpu_cycles |-> p.cpu_cycles]

PackageCpuStats_to_dict(self) ==
    [user_id |-> self.user_id, package_name |-> self.package_name,
     cpu_time_ms |-> self.cpu_time_ms,
     total_cpu_time_percent |-> self.total_cpu_time_percent,
     cpu_cycles |-> self.cpu_cycles,
     process_cpu_stats |->
         [i \in 1..Len(self.process_cpu_stats) |->
             ProcessCpuStats_vars(self.process_cpu_stats[i])]]

PackageStorageIoStats_to_dict(self) ==
    [user_id |-> self.user_id, package_name |-> self.package_name,
     fg_bytes |-> self.fg_bytes, fg_bytes_percent |-> self.fg_bytes_percent,
     fg_fsync |-> self.fg_fsync, fg_fsync_percent |-> self.fg_fsync_percent,
     bg_bytes |-> self.bg_bytes, bg_bytes_percent |-> self.bg_bytes_percent,
     bg_fsync |-> self.bg_fsync, bg_fsync_percent |-> self.bg_fsync_percent]

StorageIoStats_to_dicts(list) ==
    [i \in 1..Len(list) |-> PackageStorageIoStats_to_dict(list[i])]

StatsCollection_to_dict(self) ==
    [id |-> self.id,
     date |-> IF self.date # None THEN strftime(self.date[1]) ELSE EmptyText,
     total_cpu_time_ms |-> self.total_cpu_time_ms,
     total_cpu_cycles |-> self.total_cpu_cycles,
     idle_cpu_time_ms |-> self.idle_cpu_time_ms,
     io_wait_time_ms |-> self.io_wait_time_ms,
     context_switches |-> self.context_switches,
     io_blocked_processes |-> self.io_blocked_processes,
     major_page_faults |-> self.major_page_faults,
     package_cpu_stats |->
         [i \in 1..Len(self.package_cpu_stats) |->
             PackageCpuStats_to_dict(self.package_cpu_stats[i])],
     package_storage_io_read_stats |->
         StorageIoStats_to_dicts(self.package_storage_io_read_stats),
     package_storage_io_write_stats |->
         StorageIoStats_to_dicts(self.package_storage_io_write_stats)]

\* SystemEventStats.to_list
to_list(self) ==
    [i \in 1..Len(self.collections) |-> StatsCollection_to_dict(self.collections[i])]

\* "v.to_list() if v else None" in PerformanceStats.to_dict: a list has no
\* to_list attribute
ToListOrNone(v) ==
    IF ~ Truthy(v) THEN Ok(None)
    ELSE IF v[1].type # "SystemEventStats" THEN Raise("AttributeError")
    ELSE Ok(Some(to_list(v[1])))

\* PerformanceStats.to_dict: the dictionary display, evaluated in order
ToDictOf(b, l, u, c) ==
    IF b.exc # "" THEN Raise(b.exc)
    ELSE IF l.exc # "" THEN Raise(l.exc)
    ELSE IF c.exc # "" THEN Raise(c.exc)
    ELSE Ok([boot_time_stats |-> b.val, last_n_minutes_stats |-> l.val,
             user_switch_stats |-> u, custom_collection_stats |-> c.val])

PerformanceStats_to_dict(self) ==
    ToDictOf(ToListOrNone(self._boot_time_stats),
             ToListOrNone(self._last_n_minutes_stats),
             [i \in 1..Len(self._user_switch_stats) |->
                 to_list(self._user_switch_stats[i])],
             ToListOrNone(self._custom_collection_stats))

\* BuildInformation.__init__
BuildInformation ==
    [fingerprint |-> None, brand |-> None, product |-> None, device |-> None,
     version_release |-> None, id |-> None, version_incremental |-> None,
     type |-> None, tags |-> None, sdk |-> None, platform_minor |-> None,
     codename |-> None]


(***************************************************************************)
(* Proto bridge: perf_stats_proto_utils.py.  A wire message is a record of *)
(* its fields; a message-typed field that is not set is None.              *)
(***************************************************************************)
_create_date_pb(date) ==
    [year |-> date.year, month |-> date.month, day |-> date.day]

_create_timeofday_pb(date) ==
    [hours |-> date.hour, minutes |-> date.minute, seconds |-> date.second]

\* performancestats_pb2.ProcessCpuStats(...) of lines 68-75
ProcessCpuStats_pb(p) ==
    [command |-> p.command,
     cpu_time_ms |-> p.cpu_time_ms,
     package_cpu_time_percent |-> p.package_cpu_time_percent,
     cpu_cycles |-> p.cpu_cycles]

\* performancestats_pb2.PackageCpuStats(...) of lines 58-76, processes included
PackageCpuStats_pb(p) ==
    [user_id |-> p.user_id,
     package_name |-> p.package_name,
     cpu_time_ms |-> p.cpu_time_ms,
     total_cpu_time_percent |-> p.total_cpu_time_percent,
     cpu_cycles |-> p.cpu_cycles,
     process_cpu_stats |->
         [i \in 1..Len(p.process_cpu_stats) |->
             ProcessCpuStats_pb(p.process_cpu_stats[i])]]

\* performancestats_pb2.PackageStorageIoStats(...) of lines 85-96 and 103-114
PackageStorageIoStats_pb(s) ==
    [user_id |-> s.user_id, package_name |-> s.package_name,
     fg_bytes |-> s.fg_bytes, fg_bytes_percent |-> s.fg_bytes_percent,
     fg_fsync |-> s.fg_fsync, fg_fsync_percent |-> s.fg_fsync_percent,
     bg_bytes |-> s.bg_bytes, bg_bytes_percent |-> s.bg_bytes_percent,
     bg_fsync |-> s.bg_fsync, bg_fsync_percent |-> s.bg_fsync_percent]

\* performancestats_pb2.StatsCollection(...) of lines 44-55; collection.date
\* is not None here
StatsCollection_pb(c) ==
    [id |-> c.id,
     date |-> _create_date_pb(c.date[1]),
     time |-> _create_timeofday_pb(c.date[1]),
     total_cpu_time_ms |-> c.total_cpu_time_ms,
     total_cpu_cycles |-> c.total_cpu_cycles,
     idle_cpu_time_ms |-> c.idle_cpu_time_ms,
     io_wait_time_ms |-> c.io_wait_time_ms,
     context_switches |-> c.context_switches,
     io_blocked_processes |-> c.io_blocked_processes,
     major_page_faults |-> c.major_page_faults,
     package_cpu_stats |-> <<>>,
     package_storage_io_read_stats |-> <<>>,
     package_storage_io_write_stats |-> <<>>]

\* The loop over collection.package_cpu_stats (lines 57-76) leaves in the local
\* package_cpu_stats_pb the message of the LAST package; with no package the
\* local keeps what it held before the loop (unbound: None).
PackageLoop(c, package_cpu_stats_pb) ==
    IF c.package_cpu_stats = <<>> THEN package_cpu_stats_pb
    ELSE Some(PackageCpuStats_pb(c.package_cpu_stats[Len(c.package_cpu_stats)]))

\* The two storage I/O loops (lines 81-115) act on the local
\* stats_collection_pb; both append to package_storage_io_read_stats.
StorageIoLoops(c, stats_collection_pb) ==
    [stats_collection_pb EXCEPT
        !.package_storage_io_read_stats =
            @ \o [i \in 1..Len(c.package_storage_io_read_stats) |->
                    PackageStorageIoStats_pb(c.package_storage_io_read_stats[i])]
              \o [i \in 1..Len(c.package_storage_io_write_stats) |->
                    PackageStorageIoStats_pb(c.package_storage_io_write_stats[i])]]

\* _add_system_event_pb keeps, across the iterations of its loop over the
\* collections, st = [exc, collections (of system_event_pb),
\* package_cpu_stats_pb (the local, which outlives an iteration),
\* stats_collection_pb (the local)].
\* Lines 78-115 for collection c, pkg being package_cpu_stats_pb after the
\* loop over the packages.  A repeated message field's append() stores a copy
\* of its argument, so the element appended at line 79 is the message as it is
\* at that line: pb, holding the one package of line 78.
AppendStatsCollection(c, st, pkg, pb) ==
    [exc |-> "",
     collections |-> Append(st.collections, pb),
     package_cpu_stats_pb |-> pkg,
     stats_collection_pb |-> Some(StorageIoLoops(c, pb))]

\* line 78: package_cpu_stats_pb is read, bound or not
AppendPackageCpuStats(c, st, pkg) ==
    IF pkg = None
    THEN [st EXCEPT !.exc = "UnboundLocalError"]
    ELSE AppendStatsCollection(c, st, pkg,
             [StatsCollection_pb(c) EXCEPT !.package_cpu_stats = <<pkg[1]>>])

\* one iteration of the loop of line 43
AddCollection(c, st) ==
    IF st.exc # "" THEN st
    ELSE IF c.date = None
    THEN [st EXCEPT !.exc = "AttributeError"]          \* date.year of None, line 28
    ELSE AppendPackageCpuStats(c, st, PackageLoop(c, st.package_cpu_stats_pb))

RECURSIVE AddCollections(_, _, _)
AddCollections(collections, i, st) ==
    IF i > Len(collections) THEN st
    ELSE AddCollections(collections, i + 1, AddCollection(collections[i], st))

\* what the caller sees of the loop's final state: the exception, or the
\* message system_event_pb
SystemEventPb(st) ==
    IF st.exc # "" THEN Raise(st.exc)
    ELSE Ok(Some([collections |-> st.collections]))

\* _add_system_event_pb(stats, system_event_pb), system_event_pb a fresh
\* message
_add_system_event_pb(stats) ==
    SystemEventPb(AddCollections(stats.collections, 1,
        [exc |-> "", collections |-> <<>>,
         package_cpu_stats_pb |-> None, stats_collection_pb |-> None]))

\* write_pb lines 233-249: one aggregate.  got is get_*_stats(); the field of
\* perf_stats_pb is set (CopyFrom) only when got is not None.
AggregatePb(got) ==
    IF got.exc # "" THEN Raise(got.exc)
    ELSE IF got.val = None THEN Ok(None)
    ELSE _add_system_event_pb(got.val[1])

\* write_pb lines 230-249: the PerformanceStats message built from the three
\* aggregates in turn, or the first exception
PerfStatsPb(b, l, c) ==
    IF b.exc # "" THEN Raise(b.exc)
    ELSE IF l.exc # "" THEN Raise(l.exc)
    ELSE IF c.exc # "" THEN Raise(c.exc)
    ELSE Ok([boot_time_stats |-> b.val, last_n_minutes_stats |-> l.val,
             custom_collection_stats |-> c.val])

BuildPerfStatsPb(self) ==
    PerfStatsPb(AggregatePb(get_boot_time_stats(self)),
                AggregatePb(get_last_n_minutes_stats(self)),
                AggregatePb(get_custom_collection_stats(self)))

NothingWritten ==
    [exc |-> "", val |-> None, out_file |-> None, out_build_file |-> None]

\* write_pb lines 251-281: perf_stats_pb is written to out_file when a path
\* is given, and wrapped with build_info into out_build_file
WriteFiles(perf_stats_pb, a, written) ==
    IF a.build_info = None
    THEN [NothingWritten EXCEPT !.val = Some(TRUE), !.out_file = written]
    ELSE IF ~ a.out_build_file
    THEN [NothingWritten EXCEPT !.exc = "TypeError",       \* open(None, "wb")
                                !.out_file = written]
    ELSE [NothingWritten EXCEPT
             !.val = Some(TRUE), !.out_file = written,
             !.out_build_file = Some([build_info |-> a.build_info[1],
                                      perf_stats |-> <<perf_stats_pb>>])]

\* write_pb lines 226-249: the guard, then the message
WritePbFrom(empty, pb, a) ==
    IF empty.exc # "" THEN [NothingWritten EXCEPT !.exc = empty.exc]
    ELSE IF empty.val THEN [NothingWritten EXCEPT !.val = Some(FALSE)]
    ELSE IF pb.exc # "" THEN [NothingWritten EXCEPT !.exc = pb.exc]
    ELSE WriteFiles(pb.val, a, IF a.out_file THEN Some(pb.val) ELSE None)

\* write_pb(perf_stats, out_file, build_info, out_build_file).
\* a = [out_file: is a path given, build_info: None or a BuildInformation,
\*      out_build_file: is a path given].
\* Result: [exc, val (the return value), out_file, out_build_file], a file
\* being None when the call did not write it, else the message written.
write_pb(self, a) ==
    WritePbFrom(PerformanceStats_is_empty(self), BuildPerfStatsPb(self), a)

\* round(x, 2) of a percent held in thousandths: to the nearest hundredth,
\* a tie going to the even hundredth
round2(x) ==
    LET q == x \div 10
        r == x % 10
    IN  IF r < 5 THEN 10 * q
        ELSE IF r > 5 THEN 10 * (q + 1)
        ELSE IF q % 2 = 0 THEN 10 * q ELSE 10 * (q + 1)

ProcessCpuStats_from_proto(stats_pb) ==
    ProcessCpuStats(stats_pb.command, stats_pb.cpu_time_ms,
                    round2(stats_pb.package_cpu_time_percent), stats_pb.cpu_cycles)

PackageCpuStats_from_proto(stats_pb) ==
    PackageCpuStats(stats_pb.user_id, stats_pb.package_name, stats_pb.cpu_time_ms,
                    round2(stats_pb.total_cpu_time_percent), stats_pb.cpu_cycles)

PackageStorageIoStats_from_proto(stats_pb) ==
    PackageStorageIoStats(stats_pb.user_id, stats_pb.package_name,
        stats_pb.fg_bytes, round2(stats_pb.fg_bytes_percent),
        stats_pb.fg_fsync, round2(stats_pb.fg_fsync_percent),
        stats_pb.bg_bytes, round2(stats_pb.bg_bytes_percent),
        stats_pb.bg_fsync, round2(stats_pb.bg_fsync_percent))

\* _get_system_event lines 127-177: one StatsCollection from its message
StatsCollection_from_pb(pb) ==
    [StatsCollection EXCEPT
        !.id = pb.id,
        !.date = Some(datetime(pb.date.year, pb.date.month, pb.date.day,
                               pb.time.hours, pb.time.minutes, pb.time.seconds, 0)),
        !.total_cpu_time_ms = pb.total_cpu_time_ms,
        !.total_cpu_cycles = pb.total_cpu_cycles,
        !.idle_cpu_time_ms = pb.idle_cpu_time_ms,
        !.io_wait_time_ms = pb.io_wait_time_ms,
        !.context_switches = pb.context_switches,
        !.io_blocked_processes = pb.io_blocked_processes,
        !.major_page_faults = pb.major_page_faults,
        !.package_cpu_stats =
            [i \in 1..Len(pb.package_cpu_stats) |->
                [PackageCpuStats_from_proto(pb.package_cpu_stats[i]) EXCEPT
                    !.process_cpu_stats =
                        [j \in 1..Len(pb.package_cpu_stats[i].process_cpu_stats) |->
                            ProcessCpuStats_from_proto(
                                pb.package_cpu_stats[i].process_cpu_stats[j])]]],
        !.package_storage_io_read_stats =
            [i \in 1..Len(pb.package_storage_io_read_stats) |->
                PackageStorageIoStats_from_proto(pb.package_storage_io_read_stats[i])],
        !.package_storage_io_write_stats =
            [i \in 1..Len(pb.package_storage_io_write_stats) |->
                PackageStorageIoStats_from_proto(pb.package_storage_io_write_stats[i])]]

\* _get_system_event(system_event_pb); reading a message field that is not
\* set yields the default message, which has no collections
_get_system_event(system_event_pb) ==
    LET colls == IF system_event_pb = None THEN <<>>
                 ELSE system_event_pb[1].collections
    IN  IF colls = <<>> THEN None
        ELSE Some(SystemEventStats(
                 [i \in 1..Len(colls) |-> StatsCollection_from_pb(colls[i])]))

\* _get_perf_stats: the results are assigned to boot_time_stats,
\* last_n_minutes_stats and custom_collection_stats, which are not the
\* attributes (_boot_time_stats, ...) the methods of PerformanceStats read
_get_perf_stats(perf_stats_pb) ==
    [PerformanceStats EXCEPT
        !.boot_time_stats = _get_system_event(perf_stats_pb.boot_time_stats),
        !.last_n_minutes_stats =
            _get_system_event(perf_stats_pb.last_n_minutes_stats),
        !.custom_collection_stats =
            _get_system_event(perf_stats_pb.custom_collection_stats)]

\* What a file holds: a serialized message (the message itself here), or
\* bytes that are not the serialization of any message of the schema.
\* "truncated" is a field whose declared length runs past the end of the
\* bytes, "invalid_utf8" a string field whose bytes are not UTF-8.
Garbage(kind) == [bytes |-> kind]
IsGarbage(content) == "bytes" \in DOMAIN content

\* proto.ParseFromString(f.read()): the exceptions it can end with, "" for a
\* normal return.  The protobuf runtime raises message.DecodeError on bytes
\* it cannot parse; its pure-Python implementation lets the UnicodeDecodeError
\* of a string field escape instead.
ParseFromString(content) ==
    IF ~ IsGarbage(content) THEN {""}
    ELSE IF content.bytes = "invalid_utf8" THEN {"DecodeError", "UnicodeDecodeError"}
    ELSE {"DecodeError"}

\* _read_proto_from_file(pb_file, proto), e being how ParseFromString ended.
\* Only UnicodeDecodeError is caught; a message object is always true, so
\* the test "not proto" never returns None.
_read_proto_from_file(file, e) ==
    IF file = None THEN Raise("FileNotFoundError")
    ELSE IF e = "UnicodeDecodeError" THEN Ok(None)
    ELSE IF e # "" THEN Raise(e)
    ELSE Ok(file)

\* read_performance_stats_pb lines 313-317 on the result of
\* _read_proto_from_file
PerfStatsOfProto(r) ==
    IF r.exc # "" THEN Raise(r.exc)
    ELSE IF r.val = None THEN Ok(None)
    ELSE Ok(Some(_get_perf_stats(r.val[1])))

\* read_performance_stats_pb(pb_file) (file: None when it does not exist)
read_performance_stats_pb(file, e) ==
    PerfStatsOfProto(_read_proto_from_file(file, e))

(***************************************************************************)
(* Values the specifications draw their inputs from.                       *)
(***************************************************************************)
SampleDate == datetime(2024, 1, 1, 0, 0, 0, 0)
SampleDateMicros == datetime(2024, 1, 2, 3, 4, 5, 6)

SampleProcess == ProcessCpuStats("com.example.app_process", 480, 96000, 12000)
SamplePackage ==
    [PackageCpuStats(10, "com.example.app", 500, 50000, 12345) EXCEPT
        !.process_cpu_stats = <<SampleProcess>>]
OtherPackage == PackageCpuStats(11, "com.example.other", 300, 33333, -1)
SampleRead == PackageStorageIoStats(10, "com.example.app", 4096, 40000, 2, 50000,
                                    1024, 10000, 1, 25000)
SampleWrite == PackageStorageIoStats(11, "com.example.other", 8192, 80000, 4, 100000,
                                     0, 0, 0, 0)

EmptyCollection == StatsCollection
\* counters and a date, no PackageCpuStats
NoPackageCollection ==
    [StatsCollection EXCEPT !.id = 1, !.date = Some(SampleDate),
        !.total_cpu_time_ms = 1000, !.idle_cpu_time_ms = 200,
        !.context_switches = 50]
\* a package, no date
NoDateCollection ==
    [StatsCollection EXCEPT !.id = 2, !.package_cpu_stats = <<SamplePackage>>]
\* id 3, every counter 0, one PackageCpuStats
OnePackageCollection ==
    [StatsCollection EXCEPT !.id = 3, !.date = Some(SampleDate),
        !.package_cpu_stats = <<SamplePackage>>]
\* every field set, two packages, storage I/O in both directions
FullCollection ==
    [StatsCollection EXCEPT !.id = 4, !.date = Some(SampleDateMicros),
        !.total_cpu_time_ms = 1000, !.total_cpu_cycles = 7000,
        !.idle_cpu_time_ms = 200, !.io_wait_time_ms = 30,
        !.context_switches = 50, !.io_blocked_processes = 2,
        !.major_page_faults = 9,
        !.package_cpu_stats = <<SamplePackage, OtherPackage>>,
        !.package_storage_io_read_stats = <<SampleRead>>,
        !.package_storage_io_write_stats = <<SampleWrite>>]

CollectionUniverse == {EmptyCollection, NoPackageCollection, NoDateCollection,
                       OnePackageCollection, FullCollection}

SeqsUpTo(S, n) == UNION {[1..k -> S] : k \in 0..n}

SystemEvents == {SystemEventStats(cs) : cs \in SeqsUpTo(CollectionUniverse, MaxCollections)}

SampleBuildInfo ==
    [fingerprint |-> "brand/product/device:14/ID/1:userdebug/dev-keys",
     brand |-> "brand", product |-> "product", device |-> "device",
     version_release |-> "14", id |-> "ID", version_incremental |-> "1",
     type |-> "userdebug", tags |-> "dev-keys", sdk |-> "34",
     platform_minor |-> "0", codename |-> "REL"]

WriteArgs == [out_file : BOOLEAN, build_info : {None, Some(SampleBuildInfo)},
              out_build_file : BOOLEAN]

NumCollections(v) == IF v = None THEN 0 ELSE Len(v[1].collections)
TotalCollections(self) ==
    NumCollections(self._boot_time_stats)
    + NumCollections(self._last_n_minutes_stats)
    + NumCollections(self._custom_collection_stats)

(***************************************************************************)
(* Specification of the data model: attribute assignments to one           *)
(* StatsCollection.                                                        *)
(***************************************************************************)
BuildIdle ==
    build_info_file = [lines |-> <<>>, pos |-> 0] /\ build_info = BuildInformation
AppIdle == request = None /\ lua_output = None /\ response = None
ModelIdle == collection = StatsCollection /\ system_event = SystemEventStats(<<>>)
BridgeIdle ==
    /\ perf_stats = PerformanceStats /\ phase = "idle" /\ args = None
    /\ ret = None /\ out_file = None /\ out_build_file = None
    /\ read_result = None
ParserIdle ==
    /\ lines = <<>> /\ idx = 0 /\ pc = "idle" /\ section = ""
    /\ performance_stats = PerformanceStats /\ system_event_stats = None
    /\ cur_collection = None /\ package_cpu_stats = <<>>
    /\ package_storage_io_stats = <<>> /\ exc = "" /\ json = None

SetId ==
    /\ \E v \in {-1, 3} : collection' = [collection EXCEPT !.id = v]
    /\ UNCHANGED <<system_event, bridgeVars, parserVars, jsonVars, buildVars, appVars>>

SetDate ==
    /\ \E v \in {None, Some(SampleDate)} :
          collection' = [collection EXCEPT !.date = v]
    /\ UNCHANGED <<system_event, bridgeVars, parserVars, jsonVars, buildVars, appVars>>

SetCounter ==
    /\ \E f \in Counters, v \in (-MaxCounter)..MaxCounter :
          collection' = [collection EXCEPT ![f] = v]
    /\ UNCHANGED <<system_event, bridgeVars, parserVars, jsonVars, buildVars, appVars>>

SetPackageCpuStats ==
    /\ \E v \in {<<>>, <<SamplePackage>>} :
          collection' = [collection EXCEPT !.package_cpu_stats = v]
    /\ UNCHANGED <<system_event, bridgeVars, parserVars, jsonVars, buildVars, appVars>>

SetPackageStorageIoReadStats ==
    /\ \E v \in {<<>>, <<SampleRead>>} :
          collection' = [collection EXCEPT !.package_storage_io_read_stats = v]
    /\ UNCHANGED <<system_event, bridgeVars, parserVars, jsonVars, buildVars, appVars>>

SetPackageStorageIoWriteStats ==
    /\ \E v \in {<<>>, <<SampleWrite>>} :
          collection' = [collection EXCEPT !.package_storage_io_write_stats = v]
    /\ UNCHANGED <<system_event, bridgeVars, parserVars, jsonVars, buildVars, appVars>>

InitModel == ModelIdle /\ BridgeIdle /\ ParserIdle /\ BuildIdle /\ AppIdle
NextModel ==
    \/ SetId
    \/ SetDate
    \/ SetCounter
    \/ SetPackageCpuStats
    \/ SetPackageStorageIoReadStats
    \/ SetPackageStorageIoWriteStats
SpecModel == InitModel /\ [][NextModel]_vars

(***************************************************************************)
(* Specification of SystemEventStats: collections are added one by one.    *)
(***************************************************************************)
\* two counters that cancel
MixedSignCollection ==
    [StatsCollection EXCEPT !.total_cpu_time_ms = -1, !.total_cpu_cycles = 1]
OneCounterCollection == [StatsCollection EXCEPT !.context_switches = 50]

AddedCollections ==
    {EmptyCollection, NoPackageCollection, OnePackageCollection,
     MixedSignCollection, OneCounterCollection}

Add ==
    /\ Len(system_event.collections) < MaxAdds
    /\ \E c \in AddedCollections :
          system_event' = SystemEventStats_add(system_event, c)
    /\ UNCHANGED <<collection, bridgeVars, parserVars, jsonVars, buildVars, appVars>>

InitEvent == ModelIdle /\ BridgeIdle /\ ParserIdle /\ BuildIdle /\ AppIdle
NextEvent == Add
SpecEvent == InitEvent /\ [][NextEvent]_vars

(***************************************************************************)
(* Specification of the proto bridge: a caller builds a PerformanceStats   *)
(* with the setters, hands it to write_pb, and reads the file back.        *)
(***************************************************************************)
SetBootTimeStats ==
    /\ phase = "build"
    /\ \E stats \in SystemEvents :
          /\ perf_stats' = set_boot_time_stats(perf_stats, stats)
          /\ TotalCollections(perf_stats') <= MaxCollections
    /\ UNCHANGED <<phase, args, ret, out_file, out_build_file, read_result>>
    /\ UNCHANGED <<modelVars, parserVars, jsonVars, buildVars, appVars>>

SetLastNMinutesStats ==
    /\ phase = "build"
    /\ \E stats \in SystemEvents :
          /\ perf_stats' = set_last_n_minutes_stats(perf_stats, stats)
          /\ TotalCollections(perf_stats') <= MaxCollections
    /\ UNCHANGED <<phase, args, ret, out_file, out_build_file, read_result>>
    /\ UNCHANGED <<modelVars, parserVars, jsonVars, buildVars, appVars>>

SetCustomCollectionStats ==
    /\ phase = "build"
    /\ \E stats \in SystemEvents :
          /\ perf_stats' = set_custom_collection_stats(perf_stats, stats)
          /\ TotalCollections(perf_stats') <= MaxCollections
    /\ UNCHANGED <<phase, args, ret, out_file, out_build_file, read_result>>
    /\ UNCHANGED <<modelVars, parserVars, jsonVars, buildVars, appVars>>

WritePb ==
    /\ phase = "build"
    /\ \E a \in WriteArgs :
          \E r \in {write_pb(perf_stats, a)} :
              /\ args' = Some(a)
              /\ ret' = Some([exc |-> r.exc, val |-> r.val])
              /\ out_file' = r.out_file
              /\ out_build_file' = r.out_build_file
    /\ phase' = "written"
    /\ UNCHANGED <<perf_stats, read_result>>
    /\ UNCHANGED <<modelVars, parserVars, jsonVars, buildVars, appVars>>

\* the file write_pb wrote is replaced by bytes that are no message
CorruptFile ==
    /\ phase = "written"
    /\ out_file # None
    /\ \E kind \in {"truncated", "invalid_utf8"} :
          out_file' = Some(Garbage(kind))
    /\ phase' = "corrupted"
    /\ UNCHANGED <<perf_stats, args, ret, out_build_file, read_result>>
    /\ UNCHANGED <<modelVars, parserVars, jsonVars, buildVars, appVars>>

\* the caller reads the file it asked write_pb to write, after write_pb
\* returned True, or the file that was replaced
ReadPerformanceStatsPb ==
    /\ \/ /\ phase = "written"
          /\ ret[1].exc = "" /\ ret[1].val = Some(TRUE) /\ args[1].out_file
       \/ phase = "corrupted"
    /\ \E e \in ParseFromString(out_file[1]) :
          read_result' = Some(read_performance_stats_pb(out_file, e))
    /\ phase' = IF phase = "written" THEN "read" ELSE "read_corrupted"
    /\ UNCHANGED <<perf_stats, args, ret, out_file, out_build_file>>
    /\ UNCHANGED <<modelVars, parserVars, jsonVars, buildVars, appVars>>

InitBridge ==
    /\ ModelIdle /\ ParserIdle /\ BuildIdle /\ AppIdle
    /\ perf_stats = PerformanceStats /\ phase = "build" /\ args = None
    /\ ret = None /\ out_file = None /\ out_build_file = None
    /\ read_result = None
NextBridge ==
    \/ SetBootTimeStats
    \/ SetLastNMinutesStats
    \/ SetCustomCollectionStats
    \/ WritePb
    \/ CorruptFile
    \/ ReadPerformanceStatsPb
SpecBridge == InitBridge /\ [][NextBridge]_vars

(***************************************************************************)
(* Dump parser: carwatchdog_dump_parser.py.                                *)
(*                                                                         *)
(* A line of the dump is [lead, text, name, nums]: lead tells whether the  *)
(* line starts with whitespace, text is the line with each run of digits   *)
(* (or decimal number) replaced by "#" and each free text by "@", nums are *)
(* the numbers in order (a percent in thousandths) and name is the free    *)
(* text.  A regular expression is [lead, texts]: whether it starts with    *)
(* \s+, and the texts it matches in full, among those of the lines that    *)
(* the specification draws.                                                *)
(***************************************************************************)
BOOT_TIME_REPORT_HEADER_PATTERN ==
    [lead |-> FALSE,
     texts |-> {"Boot-time performance report:", "Boot-time collection report:"}]
TOP_N_STORAGE_IO_READS_HEADER_PATTERN ==
    [lead |-> FALSE, texts |-> {"Top N Storage I/O Reads:", "Top N Reads:"}]
TOP_N_STORAGE_IO_WRITES_HEADER_PATTERN ==
    [lead |-> FALSE, texts |-> {"Top N Storage I/O Writes:", "Top N Writes:"}]
STATS_COLLECTION_PATTERN == [lead |-> FALSE, texts |-> {"Collection #: <@>"}]
PACKAGE_STORAGE_IO_STATS_PATTERN ==
    [lead |-> FALSE, texts |-> {"#, @, #, #%, #, #%, #, #%, #, #%"}]
PACKAGE_CPU_STATS_PATTERN ==
    [lead |-> FALSE, texts |-> {"#, @, #, #%", "#, @, #, #%, #"}]
PROCESS_CPU_STATS_PATTERN ==
    [lead |-> TRUE, texts |-> {"@, #, #%", "@, #, #%, #"}]
\* In these three the source escapes the backslash, not the parenthesis:
\* "\\(ms\\)" is a backslash followed by the group "ms\".
TOTAL_CPU_TIME_PATTERN ==
    [lead |-> FALSE, texts |-> {"Total CPU time \\ms\\: #"}]
TOTAL_CPU_CYCLES_PATTERN == [lead |-> FALSE, texts |-> {"Total CPU cycles: #"}]
TOTAL_IDLE_CPU_TIME_PATTERN ==
    [lead |-> FALSE, texts |-> {"Total idle CPU time \\ms\\/percent: # / @"}]
CPU_IO_WAIT_TIME_PATTERN ==
    [lead |-> FALSE,
     texts |-> {"CPU I/O wait time/percent: # / @",
                "CPU I/O wait time \\ms\\/percent: # / @"}]
CONTEXT_SWITCHES_PATTERN ==
    [lead |-> FALSE, texts |-> {"Number of context switches: #"}]
IO_BLOCKED_PROCESSES_PATTERN ==
    [lead |-> FALSE, texts |-> {"Number of I/O blocked processes/percent: # / @"}]
MAJOR_PAGE_FAULTS_PATTERN ==
    [lead |-> FALSE,
     texts |-> {"Number of major page faults since last collection: #"}]

PERIODIC_COLLECTION_HEADER == "Periodic collection report:"
LAST_N_MINS_COLLECTION_HEADER == "Last N minutes performance report:"
CUSTOM_COLLECTION_REPORT_HEADER == "Custom performance data report:"
TOP_N_CPU_TIME_HEADER == "Top N CPU Times:"

\* re.fullmatch(pattern, line)
fullmatch(pattern, line) ==
    line.lead = pattern.lead /\ line.text \in pattern.texts

\* str.strip() removes the leading whitespace, str.rstrip() keeps it
strip(line) == [line EXCEPT !.lead = FALSE]
rstrip(line) == line

\* line == header, for a header without leading whitespace
equals(line, header) == ~ line.lead /\ line.text = header

\* a faulty test: only the headers that _parse_collection knows
StartsWithKnownTopN(line) ==
    /\ ~ line.lead
    /\ line.text \in {TOP_N_CPU_TIME_HEADER, "Top N Storage I/O Reads:",
                      "Top N Reads:", "Top N Storage I/O Writes:",
                      "Top N Writes:"}

\* line.startswith("Top N")
StartsWithTopN(line) ==
    /\ ~ line.lead
    /\ line.text \in {TOP_N_CPU_TIME_HEADER, "Top N Storage I/O Reads:",
                      "Top N Reads:", "Top N Storage I/O Writes:",
                      "Top N Writes:", "Top N Major Page Faults:"}

\* line.startswith("-" * n): a line of dashes is text "-" with its length
StartsWithDashes(line, n) ==
    ~ line.lead /\ line.text = "-" /\ line.nums[1] >= n

\* datetime.datetime.strptime(date, DUMP_DATETIME_FORMAT): None stands for
\* the ValueError of a text that is not in the format
strptime(date) ==
    IF date = "Mon Jan 01 00:00:00 2024 UTC" THEN Some(datetime(2024, 1, 1, 0, 0, 0, 0))
    ELSE IF date = "Tue Jan 02 03:04:05 2024 UTC" THEN Some(datetime(2024, 1, 2, 3, 4, 5, 0))
    ELSE None

\* a faulty test of the end: a "Top N" header does not end a subsection
SectionEndWithoutTopN(line) ==
    \/ fullmatch(STATS_COLLECTION_PATTERN, line)
    \/ StartsWithDashes(line, COLLECTION_END_LINE_MIN_LEN)

_is_stats_section_end(line) ==
    \/ StartsWithTopN(line)
    \/ fullmatch(STATS_COLLECTION_PATTERN, line)
    \/ StartsWithDashes(line, COLLECTION_END_LINE_MIN_LEN)

\* a faulty default of the optional group: 0 where the source has -1
CpuCyclesDefaultZero(line, n) == IF Len(line.nums) >= n THEN line.nums[n] ELSE 0

\* the optional group cpuCycles: int(cpu_cycles_str), or -1 when the group
\* did not take part in the match
CpuCycles(line, n) == IF Len(line.nums) >= n THEN line.nums[n] ELSE -1

\* _parse_cpu_stats lines 607-615: the record of a line that matched
\* PACKAGE_CPU_STATS_PATTERN
PackageCpuStatsOf(line) ==
    PackageCpuStats(line.nums[1], line.name, line.nums[2], line.nums[3],
                    CpuCycles(line, 4))

\* _parse_cpu_stats lines 618-627: the record of a line that matched
\* PROCESS_CPU_STATS_PATTERN
ProcessCpuStatsOf(line) ==
    ProcessCpuStats(line.name, line.nums[1], line.nums[2], CpuCycles(line, 3))

\* _parse_storage_io_stats lines 648-659
PackageStorageIoStatsOf(line) ==
    PackageStorageIoStats(line.nums[1], line.name, line.nums[2], line.nums[3],
                          line.nums[4], line.nums[5], line.nums[6], line.nums[7],
                          line.nums[8], line.nums[9])

(***************************************************************************)
(* Lines of a dump, and the dumps parse_dump is given.                     *)
(***************************************************************************)
Line(lead, text, name, nums) ==
    [lead |-> lead, text |-> text, name |-> name, nums |-> nums]
Header(text) == Line(FALSE, text, "", <<>>)
Dashes(n) == Line(FALSE, "-", "", <<n>>)

BootHeader == Header("Boot-time performance report:")
BootCollectionHeader == Header("Boot-time collection report:")
PeriodicHeader == Header(PERIODIC_COLLECTION_HEADER)
LastNHeader == Header(LAST_N_MINS_COLLECTION_HEADER)
CustomHeader == Header(CUSTOM_COLLECTION_REPORT_HEADER)
Terminator == Dashes(COLLECTION_END_LINE_MIN_LEN)
CollectionHeader == Line(FALSE, "Collection #: <@>", "Mon Jan 01 00:00:00 2024 UTC", <<1>>)
SecondCollectionHeader ==
    Line(FALSE, "Collection #: <@>", "Tue Jan 02 03:04:05 2024 UTC", <<2>>)
BadDateCollectionHeader == Line(FALSE, "Collection #: <@>", "yesterday", <<1>>)
TotalCpuTimeLine == Line(FALSE, "Total CPU time (ms): #", "", <<1000>>)
TotalCpuCyclesLine == Line(FALSE, "Total CPU cycles: #", "", <<7000>>)
TotalIdleCpuTimeLine ==
    Line(FALSE, "Total idle CPU time (ms)/percent: # / @", "20.0%", <<200>>)
\* the line TOTAL_CPU_TIME_PATTERN matches: backslashes where the dump has
\* parentheses
TotalCpuTimeBackslashLine == Line(FALSE, "Total CPU time \\ms\\: #", "", <<1000>>)
IoWaitLine == Line(FALSE, "CPU I/O wait time/percent: # / @", "3.0%", <<30>>)
IoBlockedLine ==
    Line(FALSE, "Number of I/O blocked processes/percent: # / @", "1.0%", <<2>>)
MajorPageFaultsLine ==
    Line(FALSE, "Number of major page faults since last collection: #", "", <<9>>)
UnknownLine == Line(FALSE, "@", "Uptime: 12 minutes", <<>>)
IoWaitMsLine == Line(FALSE, "CPU I/O wait time (ms)/percent: # / @", "3.0%", <<30>>)
ContextSwitchesLine == Line(FALSE, "Number of context switches: #", "", <<50>>)
TopNCpuTimesHeader == Header(TOP_N_CPU_TIME_HEADER)
TopNMajorPageFaultsHeader == Header("Top N Major Page Faults:")
TopNReadsHeader == Header("Top N Storage I/O Reads:")
TopNWritesHeader == Header("Top N Writes:")
PackageLine == Line(FALSE, "#, @, #, #%, #", "com.example.app", <<10, 500, 50000, 12345>>)
PackageLineNoCycles == Line(FALSE, "#, @, #, #%", "com.example.app", <<10, 500, 50000>>)
ProcessLine ==
    Line(TRUE, "@, #, #%, #", "com.example.app_process", <<480, 96000, 12000>>)
ProcessLineNoCycles ==
    Line(TRUE, "@, #, #%", "com.example.app_process", <<480, 96000>>)
OtherProcessLine ==
    Line(TRUE, "@, #, #%, #", "com.example.other_process", <<290, 97000, 700>>)
OtherPackageLine == Line(FALSE, "#, @, #, #%, #", "com.example.other", <<11, 300, 33333, 777>>)
OtherPackageLineNoCycles ==
    Line(FALSE, "#, @, #, #%", "com.example.other", <<11, 300, 33333>>)
StorageIoLine ==
    Line(FALSE, "#, @, #, #%, #, #%, #, #%, #, #%", "com.example.app",
         <<10, 4096, 40000, 2, 50000, 1024, 10000, 1, 25000>>)

\* the lines that dumps of at most MaxLines lines are made of
Alphabet == {BootHeader, LastNHeader, CustomHeader, CollectionHeader, Terminator,
             TopNCpuTimesHeader, PackageLineNoCycles, ProcessLine}

One(S) == {<<l>> : l \in S}
Opt(S) == {<<>>} \cup One(S)

\* the texts made by choosing one alternative for each part, in order
RECURSIVE Expand(_)
Expand(parts) ==
    IF parts = <<>> THEN {<<>>}
    ELSE {h \o t : h \in Head(parts), t \in Expand(Tail(parts))}

\* one section with at most one collection, its counters and its CPU stats;
\* each line but the section header may be missing
CpuSectionDumps ==
    Expand(<<One({BootCollectionHeader, PeriodicHeader, LastNHeader})
                \cup {<<CustomHeader, Terminator>>},
             Opt({CollectionHeader}),
             Opt({TotalCpuTimeLine}),
             Opt({TotalIdleCpuTimeLine}),
             Opt({ContextSwitchesLine}),
             Opt({TopNCpuTimesHeader}),
             Opt({PackageLine, PackageLineNoCycles}),
             Opt({ProcessLine, ProcessLineNoCycles}),
             Opt({OtherPackageLine, OtherPackageLineNoCycles}),
             Opt({Terminator})>>)

\* one boot-time section with one collection and its storage I/O stats
StorageIoSectionDumps ==
    Expand(<<One({BootHeader}), One({CollectionHeader}),
             Opt({TopNReadsHeader}), Opt({StorageIoLine}),
             Opt({TopNWritesHeader}), Opt({StorageIoLine}),
             Opt({Terminator})>>)

\* the dump of the boot-time scenario
ScenarioDump ==
    <<BootHeader, CollectionHeader, TotalCpuTimeLine, TotalIdleCpuTimeLine,
      ContextSwitchesLine, TopNCpuTimesHeader, PackageLine, ProcessLine,
      Terminator>>

\* one CPU subsection that starts with a process line, before any package line
OrphanProcessDumps ==
    Expand(<<One({BootHeader}), One({CollectionHeader}), One({TopNCpuTimesHeader}),
             One({ProcessLine, ProcessLineNoCycles}),
             Opt({PackageLine}), Opt({OtherProcessLine}),
             Opt({OtherPackageLineNoCycles}), One({Terminator})>>)

\* a collection header whose date is not in DUMP_DATETIME_FORMAT
BadDateDump == <<BootHeader, BadDateCollectionHeader, Terminator>>

\* a custom-collection section (header, dashed line, one collection with
\* data, terminator), after a boot-time and a last-N-minutes section or not
CustomSectionDumps ==
    Expand(<<{<<>>, <<BootHeader, CollectionHeader, TotalCpuTimeLine, Terminator>>},
             {<<>>, <<LastNHeader, CollectionHeader, TotalCpuTimeLine, Terminator>>},
             {<<CustomHeader, Terminator>>},
             One({CollectionHeader}),
             {<<TotalCpuTimeLine>>, <<TopNCpuTimesHeader, PackageLine>>},
             One({Terminator})>>)

\* two packages with processes of their own in one CPU subsection, and a
\* second collection whose CPU subsection may start with a process line
CpuOrderDumps ==
    Expand(<<One({BootHeader}), One({CollectionHeader}), One({TopNCpuTimesHeader}),
             One({PackageLine}), Opt({ProcessLine}), Opt({OtherProcessLine}),
             One({OtherPackageLine}), Opt({OtherProcessLine}), Opt({ProcessLineNoCycles}),
             {<<>>,
              <<SecondCollectionHeader, TopNCpuTimesHeader, OtherProcessLine,
                OtherPackageLineNoCycles, ProcessLine>>},
             One({Terminator})>>)

\* one collection with a "Total CPU cycles" line among its lines
CpuCyclesDumps ==
    Expand(<<One({BootHeader, PeriodicHeader}), One({CollectionHeader}),
             Opt({ContextSwitchesLine}), One({TotalCpuCyclesLine}),
             {<<>>, <<TopNCpuTimesHeader, PackageLine>>},
             One({Terminator})>>)

\* one collection with two lines out of the field lines and the lines that
\* are no field
FieldLines ==
    {TotalCpuTimeLine, TotalCpuTimeBackslashLine, TotalCpuCyclesLine,
     TotalIdleCpuTimeLine, IoWaitLine, ContextSwitchesLine, IoBlockedLine,
     MajorPageFaultsLine, UnknownLine, PackageLine}
FieldDumps ==
    Expand(<<One({BootHeader}), One({CollectionHeader}), One(FieldLines),
             One(FieldLines), One({Terminator})>>)

\* a CPU subsection followed at once by storage I/O subsections, and a
\* second collection that starts where a subsection ends
SubsectionDumps ==
    Expand(<<One({BootHeader}), One({CollectionHeader}),
             One({TopNCpuTimesHeader}), One({PackageLine}), Opt({ProcessLine}),
             One({TopNReadsHeader}), One({StorageIoLine}),
             {<<>>, <<TopNWritesHeader, StorageIoLine, StorageIoLine>>},
             {<<>>, <<SecondCollectionHeader, TopNWritesHeader, StorageIoLine>>,
              <<SecondCollectionHeader, TopNCpuTimesHeader, OtherPackageLine>>},
             One({Terminator})>>)

\* a collection header with no data line before the next collection header
\* or the terminator
HeaderOnlyDumps ==
    Expand(<<One({BootHeader, LastNHeader}), One({CollectionHeader}),
             {<<>>, <<SecondCollectionHeader, ContextSwitchesLine>>,
              <<SecondCollectionHeader>>},
             One({Terminator})>>)

\* dumps made of the elements that perf_stats_parser.py knows
OldSchemaDumps ==
    Expand(<<{<<BootHeader>>, <<CustomHeader, Terminator>>},
             One({CollectionHeader}),
             Opt({TotalCpuTimeLine}), Opt({TotalIdleCpuTimeLine}),
             Opt({IoWaitMsLine}), Opt({ContextSwitchesLine}), Opt({IoBlockedLine}),
             {<<>>, <<TopNCpuTimesHeader, PackageLine, ProcessLine>>,
              <<TopNCpuTimesHeader, PackageLineNoCycles, ProcessLineNoCycles,
                OtherPackageLine>>},
             One({Terminator})>>)

\* one section of one or two collections, each with its own data lines
MultiCollectionDumps ==
    Expand(<<One({BootHeader}), One({CollectionHeader, SecondCollectionHeader}),
             Opt({ContextSwitchesLine}), Opt({MajorPageFaultsLine}),
             Opt({CollectionHeader, SecondCollectionHeader}),
             Opt({IoBlockedLine}), Opt({ContextSwitchesLine}),
             One({Terminator})>>)

\* two or three sections under boot-time and periodic headers, each with or
\* without a collection
RepeatedHeaders == {BootHeader, BootCollectionHeader, PeriodicHeader, LastNHeader}
RepeatedSectionDumps ==
    Expand(<<One(RepeatedHeaders), Opt({CollectionHeader}),
             Opt({ContextSwitchesLine}), One({Terminator}),
             One(RepeatedHeaders), Opt({SecondCollectionHeader}),
             Opt({IoBlockedLine}), One({Terminator}),
             {<<>>} \cup {<<h, Terminator>> : h \in RepeatedHeaders}>>)

\* a collection with a "Top N Major Page Faults:" header, after a subsection
\* that is parsed or right after the collection header, and lines in the
\* shape of records under it
UnknownTopNDumps ==
    Expand(<<One({BootHeader}), One({CollectionHeader}),
             {<<>>, <<TopNCpuTimesHeader, PackageLine>>,
              <<TopNReadsHeader, StorageIoLine>>,
              <<TopNWritesHeader, StorageIoLine>>},
             One({TopNMajorPageFaultsHeader}),
             One({PackageLineNoCycles, OtherPackageLine, StorageIoLine}),
             Opt({ProcessLine}), Opt({StorageIoLine}),
             One({Terminator})>>)

Dumps ==
    FieldDumps \cup OldSchemaDumps \cup MultiCollectionDumps \cup UnknownTopNDumps \cup
    RepeatedSectionDumps \cup HeaderOnlyDumps \cup SubsectionDumps \cup SeqsUpTo(Alphabet, MaxLines) \cup CpuSectionDumps \cup StorageIoSectionDumps
        \cup OrphanProcessDumps \cup CustomSectionDumps \cup CpuOrderDumps
        \cup CpuCyclesDumps
        \cup {ScenarioDump, BadDateDump}

(***************************************************************************)
(* Specification of the parser: parse_dump on one dump, one action per     *)
(* iteration of the loop of parse_dump, _parse_stats_collections,          *)
(* _parse_collection, _parse_cpu_stats and _parse_storage_io_stats.  idx   *)
(* counts from 0 as in the source: lines[idx] there is lines[idx + 1]      *)
(* here.  pc names the function whose loop runs; "done" is the return of   *)
(* parse_dump, "raised" an exception that leaves it.                       *)
(***************************************************************************)
\* lines[idx] with idx >= len(lines), and strptime on a text that is not a date
Raised(e) ==
    /\ pc' = "raised" /\ exc' = e
    /\ UNCHANGED <<lines, idx, section, performance_stats, system_event_stats,
                   cur_collection, package_cpu_stats, package_storage_io_stats>>

\* parse_dump calls _parse_stats_collections(lines, i)
EnterSection(s, i) ==
    /\ pc' = "_parse_stats_collections" /\ section' = s /\ idx' = i
    /\ system_event_stats' = Some(SystemEventStats(<<>>))
    /\ UNCHANGED <<lines, performance_stats, cur_collection, package_cpu_stats,
                   package_storage_io_stats, exc>>

\* parse_dump lines 737-755 on the stripped line
ParseDumpLine(line) ==
    IF fullmatch(BOOT_TIME_REPORT_HEADER_PATTERN, line)
    THEN EnterSection("boot_time", idx)
    ELSE IF equals(line, PERIODIC_COLLECTION_HEADER)
            \/ equals(line, LAST_N_MINS_COLLECTION_HEADER)
    THEN EnterSection("last_n_minutes", idx)
    ELSE IF equals(line, CUSTOM_COLLECTION_REPORT_HEADER)
    THEN EnterSection("custom_collection", idx + 2)
    ELSE /\ idx' = idx + 1
         /\ UNCHANGED <<lines, pc, section, performance_stats, system_event_stats,
                        cur_collection, package_cpu_stats,
                        package_storage_io_stats, exc>>

ParseDump ==
    /\ pc = "parse_dump"
    /\ IF idx < Len(lines)
       THEN ParseDumpLine(strip(lines[idx + 1]))
       ELSE /\ pc' = "done"
            /\ UNCHANGED <<lines, idx, section, performance_stats,
                           system_event_stats, cur_collection, package_cpu_stats,
                           package_storage_io_stats, exc>>
    /\ UNCHANGED <<modelVars, bridgeVars, jsonVars, buildVars, appVars>>

\* a faulty return: the scan of parse_dump starts again at the first line
SectionParsedRestart(stats) ==
    /\ performance_stats' = performance_stats
    /\ idx' = 0
    /\ pc' = "parse_dump" /\ section' = "" /\ system_event_stats' = None
    /\ UNCHANGED <<lines, cur_collection, package_cpu_stats,
                   package_storage_io_stats, exc>>

\* parse_dump lines 739-755 after _parse_stats_collections returned stats:
\* the setter when stats is not empty, then "idx += 1" on the else branch of
\* the test for the custom header
SectionParsed(stats) ==
    /\ performance_stats' =
          IF SystemEventStats_is_empty(stats) THEN performance_stats
          ELSE IF section = "boot_time"
          THEN set_boot_time_stats(performance_stats, stats)
          ELSE IF section = "last_n_minutes"
          THEN set_last_n_minutes_stats(performance_stats, stats)
          ELSE set_custom_collection_stats(performance_stats, stats)
    /\ idx' = IF section = "custom_collection" THEN idx ELSE idx + 1
    /\ pc' = "parse_dump" /\ section' = "" /\ system_event_stats' = None
    /\ UNCHANGED <<lines, cur_collection, package_cpu_stats,
                   package_storage_io_stats, exc>>

\* a faulty header step: the collection is numbered by its place in the section
EnterCollectionNumbered(line, date) ==
    IF date = None THEN Raised("ValueError")
    ELSE /\ cur_collection' =
                Some([StatsCollection EXCEPT
                         !.id = Len(system_event_stats[1].collections) + 1,
                         !.date = date])
         /\ idx' = idx + 1 /\ pc' = "_parse_collection"
         /\ UNCHANGED <<lines, section, performance_stats, system_event_stats,
                        package_cpu_stats, package_storage_io_stats, exc>>

\* _parse_collection lines 671-675
EnterCollection(line, date) ==
    IF date = None THEN Raised("ValueError")
    ELSE /\ cur_collection' =
                Some([StatsCollection EXCEPT !.id = line.nums[1], !.date = date])
         /\ idx' = idx + 1 /\ pc' = "_parse_collection"
         /\ UNCHANGED <<lines, section, performance_stats, system_event_stats,
                        package_cpu_stats, package_storage_io_stats, exc>>

\* _parse_stats_collections lines 720-728 on the stripped line
ParseStatsCollectionsLine(line) ==
    IF StartsWithDashes(line, 50) THEN SectionParsed(system_event_stats[1])
    ELSE IF fullmatch(STATS_COLLECTION_PATTERN, line)
    THEN EnterCollection(line, strptime(line.name))
    ELSE /\ idx' = idx + 1
         /\ UNCHANGED <<lines, pc, section, performance_stats, system_event_stats,
                        cur_collection, package_cpu_stats,
                        package_storage_io_stats, exc>>

ParseStatsCollections ==
    /\ pc = "_parse_stats_collections"
    /\ IF idx < Len(lines)
       THEN ParseStatsCollectionsLine(strip(lines[idx + 1]))
       ELSE Raised("IndexError")
    /\ UNCHANGED <<modelVars, bridgeVars, jsonVars, buildVars, appVars>>

\* _parse_stats_collections lines 723-725 after _parse_collection returned
CollectionParsed(c) ==
    /\ system_event_stats' =
          IF StatsCollection_is_empty(c) THEN system_event_stats
          ELSE Some(SystemEventStats(Append(system_event_stats[1].collections, c)))
    /\ cur_collection' = None /\ pc' = "_parse_stats_collections"
    /\ UNCHANGED <<lines, idx, section, performance_stats, package_cpu_stats,
                   package_storage_io_stats, exc>>

\* _parse_collection line 681-682: an "if" of its own
TotalCpuTimeField(c, line) ==
    IF fullmatch(TOTAL_CPU_TIME_PATTERN, line)
    THEN [c EXCEPT !.total_cpu_time_ms = line.nums[1]] ELSE c

\* a faulty chain: every counter line also sets the counter after its own
CounterFieldAndNext(c, line) ==
    IF fullmatch(CONTEXT_SWITCHES_PATTERN, line)
    THEN [c EXCEPT !.context_switches = line.nums[1],
                   !.io_blocked_processes = line.nums[1]]
    ELSE IF fullmatch(CPU_IO_WAIT_TIME_PATTERN, line)
    THEN [c EXCEPT !.io_wait_time_ms = line.nums[1],
                   !.context_switches = line.nums[1]]
    ELSE c

\* _parse_collection lines 683-694: the first pattern of the chain that
\* matches sets its field; a "Total CPU cycles" line sets total_cycles
CounterField(c, line) ==
    IF fullmatch(TOTAL_CPU_CYCLES_PATTERN, line)
    THEN [c EXCEPT !.total_cycles = Some(line.nums[1])]
    ELSE IF fullmatch(TOTAL_IDLE_CPU_TIME_PATTERN, line)
    THEN [c EXCEPT !.idle_cpu_time_ms = line.nums[1]]
    ELSE IF fullmatch(CPU_IO_WAIT_TIME_PATTERN, line)
    THEN [c EXCEPT !.io_wait_time_ms = line.nums[1]]
    ELSE IF fullmatch(CONTEXT_SWITCHES_PATTERN, line)
    THEN [c EXCEPT !.context_switches = line.nums[1]]
    ELSE IF fullmatch(IO_BLOCKED_PROCESSES_PATTERN, line)
    THEN [c EXCEPT !.io_blocked_processes = line.nums[1]]
    ELSE IF fullmatch(MAJOR_PAGE_FAULTS_PATTERN, line)
    THEN [c EXCEPT !.major_page_faults = line.nums[1]]
    ELSE c

IsCounterLine(line) ==
    \E pattern \in {TOTAL_CPU_CYCLES_PATTERN, TOTAL_IDLE_CPU_TIME_PATTERN,
                    CPU_IO_WAIT_TIME_PATTERN, CONTEXT_SWITCHES_PATTERN,
                    IO_BLOCKED_PROCESSES_PATTERN, MAJOR_PAGE_FAULTS_PATTERN} :
        fullmatch(pattern, line)

\* _parse_collection calls _parse_cpu_stats or _parse_storage_io_stats after
\* skipping the subsection header
EnterSubsection(c, sub) ==
    /\ cur_collection' = Some(c) /\ idx' = idx + 1 /\ pc' = sub
    /\ package_cpu_stats' = <<>> /\ package_storage_io_stats' = <<>>
    /\ UNCHANGED <<lines, section, performance_stats, system_event_stats, exc>>

\* _parse_collection lines 677-712 on the stripped line
ParseCollectionLine(c, line) ==
    IF fullmatch(STATS_COLLECTION_PATTERN, line)
       \/ StartsWithDashes(line, COLLECTION_END_LINE_MIN_LEN)
    THEN CollectionParsed(c)
    ELSE IF IsCounterLine(line)
    THEN /\ cur_collection' = Some(CounterField(TotalCpuTimeField(c, line), line))
         /\ idx' = idx + 1
         /\ UNCHANGED <<lines, pc, section, performance_stats, system_event_stats,
                        package_cpu_stats, package_storage_io_stats, exc>>
    ELSE IF equals(line, TOP_N_CPU_TIME_HEADER)
    THEN EnterSubsection(TotalCpuTimeField(c, line), "_parse_cpu_stats")
    ELSE IF fullmatch(TOP_N_STORAGE_IO_READS_HEADER_PATTERN, line)
    THEN EnterSubsection(TotalCpuTimeField(c, line), "_parse_storage_io_stats(read)")
    ELSE IF fullmatch(TOP_N_STORAGE_IO_WRITES_HEADER_PATTERN, line)
    THEN EnterSubsection(TotalCpuTimeField(c, line), "_parse_storage_io_stats(write)")
    ELSE /\ cur_collection' = Some(TotalCpuTimeField(c, line))
         /\ idx' = idx + 1
         /\ UNCHANGED <<lines, pc, section, performance_stats, system_event_stats,
                        package_cpu_stats, package_storage_io_stats, exc>>

ParseCollection ==
    /\ pc = "_parse_collection"
    /\ IF idx < Len(lines)
       THEN ParseCollectionLine(cur_collection[1], strip(lines[idx + 1]))
       ELSE Raised("IndexError")
    /\ UNCHANGED <<modelVars, bridgeVars, jsonVars, buildVars, appVars>>

\* a faulty treatment of a process line without package: it is kept, under a
\* package of its own
AppendProcessKeepOrphan(list, process) ==
    IF list = <<>>
    THEN <<[PackageCpuStats(-1, "", 0, 0, -1) EXCEPT !.process_cpu_stats = <<process>>]>>
    ELSE [list EXCEPT ![Len(list)].process_cpu_stats = Append(@, process)]

\* a faulty choice of the package: the first one of the subsection
AppendProcessToFirst(list, process) ==
    IF list = <<>> THEN list
    ELSE [list EXCEPT ![1].process_cpu_stats = Append(@, process)]

\* _parse_cpu_stats lines 617-632: a process line goes to the package parsed
\* last; without one it is reported on stderr and dropped
AppendProcess(list, process) ==
    IF list = <<>> THEN list
    ELSE [list EXCEPT ![Len(list)].process_cpu_stats = Append(@, process)]

\* _parse_cpu_stats lines 605-636 on the right-stripped line; on return
\* _parse_collection line 698 stores the list
ParseCpuStatsLine(line) ==
    IF _is_stats_section_end(line)
    THEN /\ cur_collection' =
                Some([cur_collection[1] EXCEPT !.package_cpu_stats = package_cpu_stats])
         /\ pc' = "_parse_collection" /\ package_cpu_stats' = <<>>
         /\ UNCHANGED <<lines, idx, section, performance_stats,
                        system_event_stats, package_storage_io_stats, exc>>
    ELSE /\ package_cpu_stats' =
                IF fullmatch(PACKAGE_CPU_STATS_PATTERN, line)
                THEN Append(package_cpu_stats, PackageCpuStatsOf(line))
                ELSE IF fullmatch(PROCESS_CPU_STATS_PATTERN, line)
                THEN AppendProcess(package_cpu_stats, ProcessCpuStatsOf(line))
                ELSE package_cpu_stats
         /\ idx' = idx + 1
         /\ UNCHANGED <<lines, pc, section, performance_stats, system_event_stats,
                        cur_collection, package_storage_io_stats, exc>>

ParseCpuStats ==
    /\ pc = "_parse_cpu_stats"
    /\ IF idx < Len(lines)
       THEN ParseCpuStatsLine(rstrip(lines[idx + 1]))
       ELSE Raised("IndexError")
    /\ UNCHANGED <<modelVars, bridgeVars, jsonVars, buildVars, appVars>>

\* _parse_storage_io_stats lines 645-664 on the right-stripped line; on return
\* _parse_collection line 703 or 708 stores the list
ParseStorageIoStatsLine(line) ==
    IF _is_stats_section_end(line)
    THEN /\ cur_collection' =
                IF pc = "_parse_storage_io_stats(read)"
                THEN Some([cur_collection[1] EXCEPT
                              !.package_storage_io_read_stats = package_storage_io_stats])
                ELSE Some([cur_collection[1] EXCEPT
                              !.package_storage_io_write_stats = package_storage_io_stats])
         /\ pc' = "_parse_collection" /\ package_storage_io_stats' = <<>>
         /\ UNCHANGED <<lines, idx, section, performance_stats,
                        system_event_stats, package_cpu_stats, exc>>
    ELSE /\ package_storage_io_stats' =
                IF fullmatch(PACKAGE_STORAGE_IO_STATS_PATTERN, line)
                THEN Append(package_storage_io_stats, PackageStorageIoStatsOf(line))
                ELSE package_storage_io_stats
         /\ idx' = idx + 1
         /\ UNCHANGED <<lines, pc, section, performance_stats, system_event_stats,
                        cur_collection, package_cpu_stats, exc>>

ParseStorageIoStats ==
    /\ pc \in {"_parse_storage_io_stats(read)", "_parse_storage_io_stats(write)"}
    /\ IF idx < Len(lines)
       THEN ParseStorageIoStatsLine(rstrip(lines[idx + 1]))
       ELSE Raised("IndexError")
    /\ UNCHANGED <<modelVars, bridgeVars, jsonVars, buildVars, appVars>>

\* json.loads(json.dumps(d)) of a structure of dictionaries with text keys,
\* lists, numbers, texts and None: an equal structure
json_loads_dumps(d) == d

\* parse_dump_to_json lines 760-762, once parse_dump has returned
ToJsonOf(d) ==
    IF d.exc # "" THEN Raise(d.exc) ELSE Ok(json_loads_dumps(d.val))

ParseDumpToJson ==
    /\ pc = "done"
    /\ json' = Some(ToJsonOf(PerformanceStats_to_dict(performance_stats)))
    /\ pc' = "parse_dump_to_json"
    /\ UNCHANGED <<lines, idx, section, performance_stats, system_event_stats,
                   cur_collection, package_cpu_stats, package_storage_io_stats,
                   exc>>
    /\ UNCHANGED <<modelVars, bridgeVars, buildVars, appVars>>

InitParse ==
    /\ ModelIdle /\ BridgeIdle
    /\ lines \in Dumps
    /\ idx = 0 /\ pc = "parse_dump" /\ section = ""
    /\ performance_stats = PerformanceStats /\ system_event_stats = None
    /\ cur_collection = None /\ package_cpu_stats = <<>>
    /\ package_storage_io_stats = <<>> /\ exc = "" /\ json = None
    /\ BuildIdle /\ AppIdle
NextParse ==
    \/ ParseDump
    \/ ParseStatsCollections
    \/ ParseCollection
    \/ ParseCpuStats
    \/ ParseStorageIoStats
    \/ ParseDumpToJson
SpecParse == InitParse /\ [][NextParse]_vars

\* parse_dump is one call that runs on: no loop of it waits for anything
\* outside, so a step that is possible is taken
SpecParseFair == InitParse /\ [][NextParse]_vars /\ WF_vars(NextParse)

(***************************************************************************)
(* The earlier parser: perf_stats_parser.py.  Its patterns are ordinary    *)
(* string literals, where "\\(" is the escaped parenthesis, and it tests   *)
(* them with re.match, which accepts a line that begins with a match.      *)
(* parse_dump is a function of the dump: each loop is an operator that     *)
(* takes the cursor and what the loop has built, and gives [exc, val, idx].*)
(***************************************************************************)
Old_TOTAL_CPU_TIME_PATTERN ==
    [lead |-> FALSE, texts |-> {"Total CPU time (ms): #"}]
Old_TOTAL_IDLE_CPU_TIME_PATTERN ==
    [lead |-> FALSE, texts |-> {"Total idle CPU time (ms)/percent: # / @"}]
Old_CPU_IO_WAIT_TIME_PATTERN ==
    [lead |-> FALSE, texts |-> {"CPU I/O wait time (ms)/percent: # / @"}]

\* the texts of the lines drawn that begin with another text and go on
TextExtensions ==
    {<<"#, @, #, #%", "#, @, #, #%, #">>,
     <<"#, @, #, #%", "#, @, #, #%, #, #%, #, #%, #, #%">>,
     <<"@, #, #%", "@, #, #%, #">>}

\* re.match(pattern, line)
match(pattern, line) ==
    /\ line.lead = pattern.lead
    /\ \E t \in pattern.texts : t = line.text \/ <<t, line.text>> \in TextExtensions

\* the groups "(\d+).(\d+)" of a percent held in thousandths: the digits
\* before the point and the three digits after it
PercentGroups(x) == <<x \div 1000, x % 1000>>
\* float("{}.{}".format(a, b)), in thousandths; b is the text of the group,
\* zeros at its front included
FloatOfGroups(g) == 1000 * g[1] + g[2]

\* perf_stats_parser.StatsCollection.__init__
Old_StatsCollection ==
    [id |-> -1, date |-> None, total_cpu_time_ms |-> 0, idle_cpu_time_ms |-> 0,
     io_wait_time_ms |-> 0, context_switches |-> 0, io_blocked_processes |-> 0,
     package_cpu_stats |-> <<>>]

Old_StatsCollection_is_empty(self) ==
    /\ self.id = -1 /\ self.date = None
    /\ self.total_cpu_time_ms + self.idle_cpu_time_ms + self.io_wait_time_ms
          + self.context_switches + self.io_blocked_processes = 0
    /\ Len(self.package_cpu_stats) = 0

Old_SystemEventStats_is_empty(self) ==
    ~ \E i \in 1..Len(self.collections) :
          ~ Old_StatsCollection_is_empty(self.collections[i])

Old_PerformanceStats ==
    [boot_time_stats |-> None, user_switch_stats |-> <<>>,
     custom_collection_stats |-> None]

Step(e, v, i) == [exc |-> e, val |-> v, idx |-> i]

\* parse_cpu_times lines 277-288 and 289-298: the records of a line
Old_PackageCpuStatsOf(line) ==
    PackageCpuStats(line.nums[1], line.name, line.nums[2],
                    FloatOfGroups(PercentGroups(line.nums[3])), CpuCycles(line, 4))
Old_ProcessCpuStatsOf(line) ==
    ProcessCpuStats(line.name, line.nums[1],
                    FloatOfGroups(PercentGroups(line.nums[2])), CpuCycles(line, 3))

\* parse_cpu_times lines 276-300 on one line
CpuTimesLine(list, line) ==
    IF match(PACKAGE_CPU_STATS_PATTERN, line)
    THEN Append(list, Old_PackageCpuStatsOf(line))
    ELSE IF match(PROCESS_CPU_STATS_PATTERN, line)
    THEN AppendProcess(list, Old_ProcessCpuStatsOf(line))
    ELSE list

RECURSIVE parse_cpu_times(_, _, _)
parse_cpu_times(ls, i, list) ==
    IF i >= Len(ls) THEN Step("IndexError", list, i)
    ELSE IF \/ StartsWithTopN(rstrip(ls[i + 1]))
            \/ match(STATS_COLLECTION_PATTERN, rstrip(ls[i + 1]))
            \/ StartsWithDashes(rstrip(ls[i + 1]), 50)
    THEN Step("", list, i)
    ELSE parse_cpu_times(ls, i + 1, CpuTimesLine(list, rstrip(ls[i + 1])))

\* parse_collection lines 314-323: one elif chain
Old_CounterField(c, line) ==
    IF match(Old_TOTAL_CPU_TIME_PATTERN, line)
    THEN [c EXCEPT !.total_cpu_time_ms = line.nums[1]]
    ELSE IF match(Old_TOTAL_IDLE_CPU_TIME_PATTERN, line)
    THEN [c EXCEPT !.idle_cpu_time_ms = line.nums[1]]
    ELSE IF match(Old_CPU_IO_WAIT_TIME_PATTERN, line)
    THEN [c EXCEPT !.io_wait_time_ms = line.nums[1]]
    ELSE IF match(CONTEXT_SWITCHES_PATTERN, line)
    THEN [c EXCEPT !.context_switches = line.nums[1]]
    ELSE IF match(IO_BLOCKED_PROCESSES_PATTERN, line)
    THEN [c EXCEPT !.io_blocked_processes = line.nums[1]]
    ELSE c

Old_FieldMatched(line) ==
    \E pattern \in {Old_TOTAL_CPU_TIME_PATTERN, Old_TOTAL_IDLE_CPU_TIME_PATTERN,
                     Old_CPU_IO_WAIT_TIME_PATTERN, CONTEXT_SWITCHES_PATTERN,
                     IO_BLOCKED_PROCESSES_PATTERN} : match(pattern, line)

RECURSIVE parse_collection(_, _, _)
\* lines 324-328: the result of parse_cpu_times is stored and the loop goes on
AfterCpuTimes(ls, c, r) ==
    IF r.exc # "" THEN Step(r.exc, c, r.idx)
    ELSE parse_collection(ls, r.idx, [c EXCEPT !.package_cpu_stats = r.val])

\* parse_collection lines 312-332, c being the collection of the header
parse_collection(ls, i, c) ==
    IF i >= Len(ls) THEN Step("IndexError", c, i)
    ELSE IF \/ match(STATS_COLLECTION_PATTERN, strip(ls[i + 1]))
            \/ StartsWithDashes(strip(ls[i + 1]), 50)
    THEN Step("", c, i)
    ELSE IF equals(strip(ls[i + 1]), TOP_N_CPU_TIME_HEADER)
            /\ ~ Old_FieldMatched(strip(ls[i + 1]))
    THEN AfterCpuTimes(ls, c, parse_cpu_times(ls, i + 1, <<>>))
    ELSE parse_collection(ls, i + 1, Old_CounterField(c, strip(ls[i + 1])))

RECURSIVE parse_stats_collections(_, _, _)
\* lines 339-342: the collection is added unless it is empty
AfterCollection(ls, stats, r) ==
    IF r.exc # "" THEN Step(r.exc, stats, r.idx)
    ELSE parse_stats_collections(ls, r.idx,
             IF Old_StatsCollection_is_empty(r.val) THEN stats
             ELSE [collections |-> Append(stats.collections, r.val)])

\* lines 308-310: the collection of a header; None for a date strptime refuses
CollectionOfHeader(line, date) ==
    [Old_StatsCollection EXCEPT !.id = line.nums[1], !.date = date]

\* parse_stats_collections lines 335-345
parse_stats_collections(ls, i, stats) ==
    IF i >= Len(ls) THEN Step("IndexError", stats, i)
    ELSE IF StartsWithDashes(strip(ls[i + 1]), 50) THEN Step("", stats, i)
    ELSE IF ~ match(STATS_COLLECTION_PATTERN, strip(ls[i + 1]))
    THEN parse_stats_collections(ls, i + 1, stats)
    ELSE IF strptime(ls[i + 1].name) = None THEN Step("ValueError", stats, i)
    ELSE AfterCollection(ls, stats,
             parse_collection(ls, i + 1,
                 CollectionOfHeader(ls[i + 1], strptime(ls[i + 1].name))))

RECURSIVE parse_dump(_, _, _)
\* lines 354-357 and 358-364: the aggregate is stored unless it is empty;
\* "idx += 1" is the else branch of the test for the custom header
AfterSection(ls, ps, r, field) ==
    IF r.exc # "" THEN Step(r.exc, ps, r.idx)
    ELSE parse_dump(ls, IF field = "boot_time_stats" THEN r.idx + 1 ELSE r.idx,
             IF Old_SystemEventStats_is_empty(r.val) THEN ps
             ELSE [ps EXCEPT ![field] = Some(r.val)])

\* perf_stats_parser.parse_dump lines 348-366
parse_dump(ls, i, ps) ==
    IF i >= Len(ls) THEN Step("", ps, i)
    ELSE IF equals(strip(ls[i + 1]), "Boot-time performance report:")
    THEN AfterSection(ls, ps,
             parse_stats_collections(ls, i, [collections |-> <<>>]),
             "boot_time_stats")
    ELSE IF equals(strip(ls[i + 1]), CUSTOM_COLLECTION_REPORT_HEADER)
    THEN AfterSection(ls, ps,
             parse_stats_collections(ls, i + 2, [collections |-> <<>>]),
             "custom_collection_stats")
    ELSE parse_dump(ls, i + 1, ps)

(***************************************************************************)
(* parse_build_info: carwatchdog_dump_parser.py lines 550-587.             *)
(* A text of the file is [lead, segs]: an optional blank, then the         *)
(* segments that ":" separates.  A line is its key, whether a ":" follows  *)
(* the key, and the text after that ":" up to the end of the line.         *)
(***************************************************************************)
BuildText(lead, segs) == [lead |-> lead, segs |-> segs]
BuildLine(key, colon, value) == [key |-> key, colon |-> colon, value |-> value]

\* str.strip on a text of a line
strip_text(t) == [t EXCEPT !.lead = FALSE]

\* line.split(":"): the key, then the segments of the text after its colon
split_colon(line) ==
    IF line.colon
    THEN <<BuildText(FALSE, <<line.key>>)>>
         \o [i \in 1..Len(line.value.segs) |->
                BuildText(i = 1 /\ line.value.lead, <<line.value.segs[i]>>)]
    ELSE <<BuildText(FALSE, <<line.key>>)>>

\* get_value, lines 554-557 (Python indexes from 0)
get_value(line) ==
    IF ~line.colon THEN BuildText(FALSE, <<"">>)
    ELSE strip_text(split_colon(line)[2])

\* the keys of the elif chain, lines 562-585, in its order, each with the
\* attribute it assigns
BuildKeys ==
    << <<"fingerprint", "fingerprint">>, <<"brand", "brand">>,
       <<"product", "product">>, <<"device", "device">>,
       <<"version.release", "version_release">>, <<"id", "id">>,
       <<"version.incremental", "version_incremental">>, <<"type", "type">>,
       <<"tags", "tags">>, <<"sdk", "sdk">>,
       <<"platform minor version", "platform_minor">>,
       <<"codename", "codename">> >>

\* the sample keys that are longer than a key of the chain they begin with
ProperPrefixes == {<<"identifier", "id">>, <<"brandname", "brand">>}

\* line.startswith(prefix): the line begins with its key
startswith(line, prefix) ==
    line.key = prefix \/ <<line.key, prefix>> \in ProperPrefixes

\* the branches of the elif chain whose test is true for the line
BranchesOf(line) == {i \in 1..Len(BuildKeys) : startswith(line, BuildKeys[i][1])}
FirstBranch(B) == CHOOSE i \in B : \A j \in B : i <= j

\* the body of the loop, lines 561-585
ParseBuildInfoLineOf(info, line) ==
    IF BranchesOf(line) = {} THEN info
    ELSE [info EXCEPT ![BuildKeys[FirstBranch(BranchesOf(line))][2]] =
                          Some(get_value(line))]

PlainValues == {"lineage", "34"}
\* a build fingerprint: brand/product/device:release/id/incremental:type/tags
FingerprintLine ==
    BuildLine("fingerprint", TRUE,
              BuildText(TRUE, <<"lineage/car/device", "14/AP1A/1",
                                "userdebug/dev-keys">>))
PlainBuildLines ==
    {BuildLine(BuildKeys[i][1], TRUE, BuildText(TRUE, <<"lineage">>)) :
        i \in 1..Len(BuildKeys)}
    \cup {BuildLine("sdk", TRUE, BuildText(TRUE, <<"34">>)),
          BuildLine("codename", TRUE, BuildText(FALSE, <<"REL">>))}
OtherBuildLines ==
    {BuildLine("identifier", TRUE, BuildText(TRUE, <<"lineage">>)),
     BuildLine("brandname", TRUE, BuildText(TRUE, <<"lineage">>)),
     BuildLine("security_patch", TRUE, BuildText(TRUE, <<"2024-01-05">>)),
     BuildLine("", FALSE, BuildText(FALSE, <<"">>))}
BuildLines == PlainBuildLines \cup {FingerprintLine} \cup OtherBuildLines
BuildInfoFiles == SeqsUpTo(BuildLines, MaxBuildLines)

\* one turn of "for line in f", lines 560-585
ParseBuildInfoLine ==
    /\ build_info_file.pos < Len(build_info_file.lines)
    /\ build_info' = ParseBuildInfoLineOf(build_info,
                         build_info_file.lines[build_info_file.pos + 1])
    /\ build_info_file' = [build_info_file EXCEPT !.pos = @ + 1]
    /\ UNCHANGED <<modelVars, bridgeVars, parserVars, jsonVars, appVars>>

InitBuildInfo ==
    /\ ModelIdle /\ BridgeIdle /\ ParserIdle /\ AppIdle
    /\ build_info_file \in {[lines |-> f, pos |-> 0] : f \in BuildInfoFiles}
    /\ build_info = BuildInformation
NextBuildInfo == ParseBuildInfoLine
SpecBuildInfo == InitBuildInfo /\ [][NextBuildInfo]_vars

(***************************************************************************)
(* execute_script: tools/telemetry/lua-interpreter/app.py lines 68-123.    *)
(* A string is its characters and what json.loads makes of them: "plain"   *)
(* (not a JSON text), "json" (a JSON text that json.dumps with indent=2    *)
(* would lay out differently) or "json_indent2" (a JSON text already in    *)
(* that layout).  The Lua engine is a shared library outside the           *)
(* repository: what it returns is any LuaOutput.                           *)
(***************************************************************************)
Str(kind, body) == [kind |-> kind, body |-> body]
EmptyStr == Str("plain", "")

\* prettify_json, lines 105-122
prettify_json(string) ==
    IF string.kind = "json" THEN Str("json_indent2", string.body) ELSE string

\* the saved state the page is rendered with when every returned state
\* replaces the submitted one
NewSavedStateAlways(new_saved_state, saved_state) == new_saved_state

\* line 93: new_saved_state if new_saved_state else saved_state
NewSavedState(new_saved_state, saved_state) ==
    IF new_saved_state.body # "" THEN new_saved_state ELSE saved_state

\* lines 87-89
DecodedOutput(output) == [i \in 1..Len(output) |-> prettify_json(output[i])]

\* lines 77-102: the keyword arguments of render_template
execute_script(form, out) ==
    [script         |-> form.script,
     output         |-> DecodedOutput(out.output),
     function_name  |-> form.function_name,
     published_data |-> form.published_data,
     saved_state    |-> NewSavedState(prettify_json(out.saved_state),
                                      form.saved_state)]

Forms ==
    [script : {Str("plain", "function test(data, state) log(2) end"),
               Str("plain", "function test(data, state) on_success(data) end")},
     function_name : {Str("plain", "test"), Str("plain", "tes")},
     published_data : {Str("json", "{\"test\": \"data\"}"), EmptyStr},
     saved_state : {Str("json", "{\"test\": \"state\"}"), Str("plain", "f"),
                    EmptyStr}]

LuaStrings ==
    {Str("json", "{\"sessionId\":7}"),
     Str("plain", "Error encountered while running the script.")}
LuaSavedStates ==
    {EmptyStr, Str("json", "{\"test\":\"data\"}"),
     Str("json_indent2", "{\n  \"test\": \"data\"\n}"), Str("plain", "nil")}
LuaOutputs ==
    [output : SeqsUpTo(LuaStrings, MaxOutputs), saved_state : LuaSavedStates]

\* the handler of POST /execute_script
ExecuteScript ==
    /\ request # None /\ response = None
    /\ \E out \in LuaOutputs :
          /\ lua_output' = Some(out)
          /\ response' = Some(execute_script(request[1], out))
    /\ UNCHANGED request
    /\ UNCHANGED <<modelVars, bridgeVars, parserVars, jsonVars, buildVars>>

InitApp ==
    /\ ModelIdle /\ BridgeIdle /\ ParserIdle /\ BuildIdle
    /\ request \in {Some(f) : f \in Forms}
    /\ lua_output = None /\ response = None
NextApp == ExecuteScript
SpecApp == InitApp /\ [][NextApp]_vars

(***************************************************************************)
(* Properties of the data model and of the proto bridge.                   *)
(***************************************************************************)
\* an attribute holds an aggregate that is present and non-empty: some
\* collection of it is not empty
NonEmptyAggregate(v) ==
    /\ v # None
    /\ \E i \in 1..Len(v[1].collections) :
          ~ StatsCollection_is_empty(v[1].collections[i])

\* none of the four aggregates is present and non-empty
NoAggregate(self) ==
    /\ ~ NonEmptyAggregate(self._boot_time_stats)
    /\ ~ NonEmptyAggregate(self._last_n_minutes_stats)
    /\ ~ NonEmptyAggregate(self._custom_collection_stats)
    /\ \A i \in 1..Len(self._user_switch_stats) :
          SystemEventStats_is_empty(self._user_switch_stats[i])

\* what a getter is to return for the aggregate held in v
ExpectedAggregate(v) ==
    IF NonEmptyAggregate(v) THEN Some(SystemEventStats(v[1].collections))
    ELSE None

\* write_pb was given arguments it can use: an output path for each message
\* it is asked to write
UsableArgs(a) == a.build_info # None => a.out_build_file

\* C1: for every non-empty PerformanceStats x, writing x with write_pb and
\* reading the file back yields a PerformanceStats whose boot-time,
\* last-N-minutes and custom-collection aggregates equal those of x field for
\* field, an aggregate that is present but empty in x being absent.
C1_RoundTrip ==
    phase = "read" =>
        /\ read_result[1].exc = ""
        /\ get_boot_time_stats(read_result[1].val[1])
               = Ok(ExpectedAggregate(perf_stats._boot_time_stats))
        /\ get_last_n_minutes_stats(read_result[1].val[1])
               = Ok(ExpectedAggregate(perf_stats._last_n_minutes_stats))
        /\ get_custom_collection_stats(read_result[1].val[1])
               = Ok(ExpectedAggregate(perf_stats._custom_collection_stats))

\* C4: StatsCollection.is_empty() is true if and only if id is -1, date is
\* absent, each of the seven counters is exactly 0 and the three child
\* sequences are empty, for every assignment of integer counter values.
C4_IsEmptyIff ==
    StatsCollection_is_empty(collection) <=>
        /\ collection.id = -1
        /\ collection.date = None
        /\ \A f \in Counters : collection[f] = 0
        /\ collection.package_cpu_stats = <<>>
        /\ collection.package_storage_io_read_stats = <<>>
        /\ collection.package_storage_io_write_stats = <<>>

\* C5: after any sequence of set_boot_time_stats, set_last_n_minutes_stats and
\* set_custom_collection_stats calls, PerformanceStats.is_empty() returns a
\* boolean, which is true if and only if no aggregate is present and non-empty.
C5_IsEmptyIffNoAggregate ==
    phase = "build" =>
        PerformanceStats_is_empty(perf_stats) = Ok(NoAggregate(perf_stats))

\* C6: write_pb on an empty PerformanceStats returns False and writes neither
\* the performance-stats file nor the device file, with or without build_info.
C6_EmptyNotWritten ==
    (phase = "written" /\ NoAggregate(perf_stats)) =>
        /\ ret[1] = Ok(Some(FALSE))
        /\ out_file = None
        /\ out_build_file = None

\* C7: write_pb returns True without raising for every non-empty
\* PerformanceStats, a collection without PackageCpuStats or without date
\* included.
C7_WriteReturnsTrue ==
    (phase = "written" /\ ~ NoAggregate(perf_stats) /\ UsableArgs(args[1])) =>
        ret[1] = Ok(Some(TRUE))

\* C10: the wire message write_pb writes holds an aggregate exactly when the
\* PerformanceStats holds it present and non-empty, and reading the message
\* back yields an absent aggregate wherever the message has none.
C10_WireAggregates ==
    (phase = "written" /\ ~ NoAggregate(perf_stats) /\ UsableArgs(args[1])
        /\ args[1].out_file) =>
        /\ out_file # None
        /\ (out_file[1].boot_time_stats # None
               <=> NonEmptyAggregate(perf_stats._boot_time_stats))
        /\ (out_file[1].last_n_minutes_stats # None
               <=> NonEmptyAggregate(perf_stats._last_n_minutes_stats))
        /\ (out_file[1].custom_collection_stats # None
               <=> NonEmptyAggregate(perf_stats._custom_collection_stats))
        /\ (out_file[1].boot_time_stats = None =>
               get_boot_time_stats(_get_perf_stats(out_file[1])) = Ok(None))
        /\ (out_file[1].last_n_minutes_stats = None =>
               get_last_n_minutes_stats(_get_perf_stats(out_file[1])) = Ok(None))
        /\ (out_file[1].custom_collection_stats = None =>
               get_custom_collection_stats(_get_perf_stats(out_file[1])) = Ok(None))


\* What holds of write_pb as it is: when is_empty() returns True the call
\* returns False and writes no file.
WriteGuard ==
    (phase = "written" /\ PerformanceStats_is_empty(perf_stats) = Ok(TRUE)) =>
        /\ ret[1] = Ok(Some(FALSE))
        /\ out_file = None
        /\ out_build_file = None

\* What holds of write_pb as it is: a file written by a call that returned
\* True holds exactly the aggregates that are present and non-empty.
WrittenFileAggregates ==
    (phase = "written" /\ ret[1] = Ok(Some(TRUE)) /\ args[1].out_file) =>
        /\ out_file # None
        /\ (out_file[1].boot_time_stats # None
               <=> NonEmptyAggregate(perf_stats._boot_time_stats))
        /\ (out_file[1].last_n_minutes_stats # None
               <=> NonEmptyAggregate(perf_stats._last_n_minutes_stats))
        /\ (out_file[1].custom_collection_stats # None
               <=> NonEmptyAggregate(perf_stats._custom_collection_stats))

\* What holds of write_pb as it is: the exceptions that leave it.
WriteExceptions ==
    (phase = "written" /\ ret[1].exc # "") =>
        ret[1].exc \in {"AttributeError", "UnboundLocalError", "TypeError"}


\* C11: reading a file whose bytes do not parse as the schema ends with an
\* explicit error result: read_performance_stats_pb returns None, and no
\* exception escapes.
C11_DecodeErrorIsReported ==
    phase = "read_corrupted" => read_result[1] = Ok(None)


\* a collection in the state __init__ leaves it in: id -1, no date, every
\* counter 0, no child
IsBlank(c) ==
    /\ c.id = -1 /\ c.date = None
    /\ \A f \in Counters : c[f] = 0
    /\ c.package_cpu_stats = <<>>
    /\ c.package_storage_io_read_stats = <<>>
    /\ c.package_storage_io_write_stats = <<>>

\* C13: after any sequence of add calls, SystemEventStats.is_empty() is true
\* if and only if every collection added is empty (so it is true when none
\* was added).
C13_EventEmptyIff ==
    SystemEventStats_is_empty(system_event) <=>
        \A i \in 1..Len(system_event.collections) :
            IsBlank(system_event.collections[i])

\* What holds of is_empty() as it is: it is true if and only if is_empty() of
\* every collection added is true.
EventEmptyIffCollectionsSayEmpty ==
    SystemEventStats_is_empty(system_event) <=>
        \A i \in 1..Len(system_event.collections) :
            StatsCollection_is_empty(system_event.collections[i])


(***************************************************************************)
(* Properties of the parser.                                               *)
(***************************************************************************)
\* C2: parse_dump returns a PerformanceStats for every input text; no dump,
\* not even one whose section or collection lacks the dashed terminator or
\* whose last line is the custom-collection header, makes it raise.
C2_ParseDumpNeverRaises == pc # "raised"

\* the collection of the boot-time scenario
ScenarioCollection(c) ==
    /\ c.id = 1 /\ c.total_cpu_time_ms = 1000 /\ c.idle_cpu_time_ms = 200
    /\ c.context_switches = 50
    /\ Len(c.package_cpu_stats) = 1
    /\ c.package_cpu_stats[1].user_id = 10
    /\ c.package_cpu_stats[1].cpu_time_ms = 500
    /\ c.package_cpu_stats[1].cpu_cycles = 12345
    /\ Len(c.package_cpu_stats[1].process_cpu_stats) = 1
    /\ c.package_cpu_stats[1].process_cpu_stats[1].cpu_time_ms = 480
    /\ c.package_cpu_stats[1].process_cpu_stats[1].cpu_cycles = 12000

ScenarioAggregate(got) ==
    /\ got.exc = "" /\ got.val # None
    /\ got.val[1].type = "SystemEventStats"
    /\ Len(got.val[1].collections) = 1
    /\ ScenarioCollection(got.val[1].collections[1])

\* C3: the dump of the boot-time scenario parses to a boot-time aggregate with
\* exactly one collection: id 1, total CPU time 1000, idle CPU time 200, 50
\* context switches, and one package (10, 500 ms, 12345 cycles) holding one
\* process (480 ms, 12000 cycles).
C3_ScenarioParsed ==
    (pc = "done" /\ lines = ScenarioDump)
        => ScenarioAggregate(get_boot_time_stats(performance_stats))

\* the collections parse_dump stored, whatever the aggregate
CollectionsOf(v) == IF v = None THEN <<>> ELSE v[1].collections
ParsedCollections(self) ==
    CollectionsOf(self._boot_time_stats) \o CollectionsOf(self._last_n_minutes_stats)
        \o CollectionsOf(self._custom_collection_stats)

\* what a CPU line says, read off the line: the cycle count is the number
\* after the percentage, and -1 when the line ends with the percentage
CyclesOnLine(line, n) == IF Len(line.nums) = n THEN line.nums[n] ELSE -1
PackageOnLine(line) ==
    [user_id |-> line.nums[1], package_name |-> line.name,
     cpu_time_ms |-> line.nums[2], total_cpu_time_percent |-> line.nums[3],
     cpu_cycles |-> CyclesOnLine(line, 4), process_cpu_stats |-> <<>>]
ProcessOnLine(line) ==
    [command |-> line.name, cpu_time_ms |-> line.nums[1],
     package_cpu_time_percent |-> line.nums[2],
     cpu_cycles |-> CyclesOnLine(line, 3)]
IsPackageLine(line) ==
    ~ line.lead /\ line.text \in {"#, @, #, #%", "#, @, #, #%, #"}
IsProcessLine(line) ==
    line.lead /\ line.text \in {"@, #, #%", "@, #, #%, #"}

\* the packages, each with its processes, that the CPU lines of a dump stand
\* for: a process belongs to the package line before it
RECURSIVE PackagesOnLines(_, _, _)
PackagesOnLines(ls, i, acc) ==
    IF i > Len(ls) THEN acc
    ELSE IF IsPackageLine(ls[i])
    THEN PackagesOnLines(ls, i + 1, Append(acc, PackageOnLine(ls[i])))
    ELSE IF IsProcessLine(ls[i]) /\ acc # <<>>
    THEN PackagesOnLines(ls, i + 1,
             [acc EXCEPT ![Len(acc)].process_cpu_stats = Append(@, ProcessOnLine(ls[i]))])
    ELSE PackagesOnLines(ls, i + 1, acc)

Contains(ls, line) == \E i \in 1..Len(ls) : ls[i] = line

\* a collection with every cycle count present
WithCycles(c) ==
    [c EXCEPT !.package_cpu_stats =
        [i \in 1..Len(@) |->
            [@[i] EXCEPT !.cpu_cycles = 1,
                         !.process_cpu_stats =
                             [j \in 1..Len(@) |-> [@[j] EXCEPT !.cpu_cycles = 1]]]]]

CpuLinesParsed(cs, ls) ==
    /\ Len(cs) = 1
    /\ cs[1].package_cpu_stats = PackagesOnLines(ls, 1, <<>>)
    /\ StatsCollection_is_empty(cs[1]) = StatsCollection_is_empty(WithCycles(cs[1]))

\* C8: in a section with one collection and a "Top N CPU Times" subsection,
\* every package line and process line becomes a record with the fields of
\* the line, cpu_cycles being the line's own cycle count, or -1 when the
\* line omits it, line by line; is_empty() of the collection is the same as
\* with the cycle counts present.
C8_OmittedCyclesPerLine ==
    (/\ pc = "done" /\ lines \in CpuSectionDumps
     /\ Contains(lines, CollectionHeader) /\ Contains(lines, TopNCpuTimesHeader))
        => CpuLinesParsed(ParsedCollections(performance_stats), lines)

C8_Witness ==
    /\ pc = "done"
    /\ lines = <<BootCollectionHeader, CollectionHeader, TopNCpuTimesHeader,
                 PackageLineNoCycles, ProcessLine, OtherPackageLine, Terminator>>
    /\ Len(ParsedCollections(performance_stats)) = 1
    /\ ParsedCollections(performance_stats)[1].package_cpu_stats[1].cpu_cycles = -1
    /\ ParsedCollections(performance_stats)[1].package_cpu_stats[1]
           .process_cpu_stats[1].cpu_cycles = 12000
    /\ ParsedCollections(performance_stats)[1].package_cpu_stats[2].cpu_cycles = 777

\* every header of the kind is followed at once by the dashed terminator,
\* and there is such a header
HeaderThenTerminator(ls, headers) ==
    /\ \E i \in 1..Len(ls) : strip(ls[i]) \in headers
    /\ \A i \in 1..Len(ls) :
          strip(ls[i]) \in headers
              => (i < Len(ls) /\ strip(ls[i + 1]) = Terminator)

BootHeaders == {BootHeader, BootCollectionHeader}
LastNHeaders == {PeriodicHeader, LastNHeader}

\* C9: when parse_dump returns on a dump whose boot-time headers are each
\* followed at once by the dashed terminator, get_boot_time_stats() is None;
\* likewise get_last_n_minutes_stats() for the periodic and last-N-minutes
\* headers.
C9_NoCollectionsIsAbsent ==
    pc = "done" =>
        /\ HeaderThenTerminator(lines, BootHeaders)
              => get_boot_time_stats(performance_stats) = Ok(None)
        /\ HeaderThenTerminator(lines, LastNHeaders)
              => get_last_n_minutes_stats(performance_stats) = Ok(None)

C9_Witness ==
    /\ pc = "done"
    /\ HeaderThenTerminator(lines, BootHeaders)
    /\ HeaderThenTerminator(lines, LastNHeaders)
    /\ get_boot_time_stats(performance_stats) = Ok(None)
    /\ get_last_n_minutes_stats(performance_stats) = Ok(None)

\* the process lines of a dump that no package line precedes
IsOrphan(ls, i) ==
    IsProcessLine(ls[i]) /\ ~ \E j \in 1..(i - 1) : IsPackageLine(ls[j])

\* the dump without the lines at the positions in drop
RECURSIVE Without(_, _, _)
Without(ls, i, drop) ==
    IF i > Len(ls) THEN <<>>
    ELSE IF i \in drop THEN Without(ls, i + 1, drop)
    ELSE <<ls[i]>> \o Without(ls, i + 1, drop)

WithoutOrphans(ls) == Without(ls, 1, {i \in 1..Len(ls) : IsOrphan(ls, i)})

\* the one collection parsed holds the packages and processes of the lines
\* left once the orphans are taken out, and nothing else
OrphansDropped(cs, ls) ==
    /\ Len(cs) = 1
    /\ cs[1] = [StatsCollection EXCEPT
                   !.id = 1, !.date = Some(SampleDate),
                   !.package_cpu_stats = PackagesOnLines(WithoutOrphans(ls), 1, <<>>)]

\* C12: a process line that comes before any package line of its "Top N CPU
\* Times" subsection is dropped: the parse does not fail, the line adds no
\* record, and the package and process lines after it are parsed as they are
\* without it.
C12_OrphanProcessDropped ==
    lines \in OrphanProcessDumps =>
        /\ pc # "raised"
        /\ pc = "done" =>
              OrphansDropped(ParsedCollections(performance_stats), lines)

C12_Witness ==
    /\ pc = "done"
    /\ lines = <<BootHeader, CollectionHeader, TopNCpuTimesHeader, ProcessLine,
                 PackageLine, OtherProcessLine, OtherPackageLineNoCycles,
                 Terminator>>
    /\ Len(ParsedCollections(performance_stats)[1].package_cpu_stats) = 2
    /\ ParsedCollections(performance_stats)[1].package_cpu_stats[1].process_cpu_stats
           = <<ProcessCpuStats("com.example.other_process", 290, 97000, 700)>>

\* a dictionary mirrors a collection: the same id and counters, and as many
\* entries in each child list
MirrorsCollection(d, c) ==
    /\ d.id = c.id
    /\ \A f \in Counters : d[f] = c[f]
    /\ Len(d.package_cpu_stats) = Len(c.package_cpu_stats)
    /\ Len(d.package_storage_io_read_stats) = Len(c.package_storage_io_read_stats)
    /\ Len(d.package_storage_io_write_stats) = Len(c.package_storage_io_write_stats)

\* an entry of the dictionary mirrors what the getter returns: None for None,
\* else one dictionary per collection, in order
MirrorsAggregate(entry, got) ==
    /\ got.exc = ""
    /\ entry = None <=> got.val = None
    /\ entry # None =>
          /\ Len(entry[1]) = Len(got.val[1].collections)
          /\ \A i \in 1..Len(entry[1]) :
                MirrorsCollection(entry[1][i], got.val[1].collections[i])

ToDictMirrors(r, self) ==
    /\ r.exc = ""
    /\ DOMAIN r.val = {"boot_time_stats", "last_n_minutes_stats",
                       "user_switch_stats", "custom_collection_stats"}
    /\ MirrorsAggregate(r.val.boot_time_stats, get_boot_time_stats(self))
    /\ MirrorsAggregate(r.val.last_n_minutes_stats, get_last_n_minutes_stats(self))
    /\ MirrorsAggregate(r.val.custom_collection_stats,
                        get_custom_collection_stats(self))
    /\ r.val.user_switch_stats = <<>>

\* C14: for every PerformanceStats parse_dump produces, a non-empty custom
\* section included, parse_dump_to_json (to_dict) returns a structure with
\* exactly the keys boot_time_stats, last_n_minutes_stats, user_switch_stats
\* and custom_collection_stats whose entries mirror the records; a second
\* call returns an equal structure.
C14_ToDictMirrors ==
    pc = "parse_dump_to_json" =>
        /\ ToDictMirrors(json[1], performance_stats)
        /\ PerformanceStats_to_dict(performance_stats) = json[1]

\* What holds of to_dict as it is: it mirrors the records of every
\* PerformanceStats without custom-collection aggregate.
ToDictMirrorsWithoutCustom ==
    (pc = "parse_dump_to_json" /\ performance_stats._custom_collection_stats = None)
        => ToDictMirrors(json[1], performance_stats)

(***************************************************************************)
(* Properties of parse_build_info.                                         *)
(***************************************************************************)
\* the attribute a key names, None when it is none of the twelve keys
FieldOfKey(key) ==
    LET I == {i \in 1..Len(BuildKeys) : BuildKeys[i][1] = key}
    IN  IF I = {} THEN None ELSE Some(BuildKeys[CHOOSE i \in I : TRUE][2])

\* the whole text after the colon of the key, without the blanks around it
WholeValue(line) == [lead |-> FALSE, segs |-> line.value.segs]

RECURSIVE ExpectedBuildInfo(_, _)
ExpectedBuildInfo(ls, n) ==
    IF n = 0 THEN BuildInformation
    ELSE LET before == ExpectedBuildInfo(ls, n - 1)
             field  == FieldOfKey(ls[n].key)
         IN  IF field = None \/ ~ls[n].colon THEN before
             ELSE [before EXCEPT ![field[1]] = Some(WholeValue(ls[n]))]

\* C15: after each line read, every field of the BuildInformation holds the
\* whole value text after the colon of the last 'key: value' line with the
\* field's own key (the later colons of the value included), and lines whose
\* key is none of the twelve keys have changed no field.
C15_BuildInfoFieldPerKey ==
    build_info = ExpectedBuildInfo(build_info_file.lines, build_info_file.pos)

\* What holds instead: on files whose lines all carry one of the twelve keys
\* and a value without ":", every field holds the whole value of its key.
IsPlainBuildLine(l) ==
    FieldOfKey(l.key) # None /\ l.colon /\ Len(l.value.segs) = 1
BuildInfoOfPlainLines ==
    (\A i \in 1..Len(build_info_file.lines) :
        IsPlainBuildLine(build_info_file.lines[i]))
    => build_info = ExpectedBuildInfo(build_info_file.lines, build_info_file.pos)

(***************************************************************************)
(* Properties of execute_script.                                           *)
(***************************************************************************)
\* C16: the page is rendered with the submitted saved state, unchanged, when
\* the engine returned an empty saved state, and with the engine's saved
\* state, prettified, when that is not empty; script, function name and
\* published data are rendered as submitted.
C16_SavedStateRendered ==
    response # None =>
        /\ lua_output[1].saved_state = EmptyStr
              => response[1].saved_state = request[1].saved_state
        /\ lua_output[1].saved_state # EmptyStr
              => response[1].saved_state = prettify_json(lua_output[1].saved_state)
        /\ response[1].script = request[1].script
        /\ response[1].function_name = request[1].function_name
        /\ response[1].published_data = request[1].published_data

\* the engine returned no saved state for a request that submitted one that
\* prettify_json would change
C16_Witness ==
    /\ response # None
    /\ lua_output[1].saved_state = EmptyStr
    /\ request[1].saved_state.kind = "json"
    /\ response[1].saved_state = request[1].saved_state

\* the other case: the engine returned a saved state that is laid out anew
SavedStateReplaced ==
    /\ response # None
    /\ lua_output[1].saved_state.kind = "json"
    /\ response[1].saved_state.kind = "json_indent2"
    /\ response[1].saved_state.body = lua_output[1].saved_state.body

(***************************************************************************)
(* Properties of the collections on the wire.                              *)
(***************************************************************************)
\* the collections write_pb serialized into aggregate w of the file from the
\* aggregate m of the PerformanceStats: pairs <<wire, in memory>>
Serialized(w, m) ==
    IF w = None \/ m = None THEN {}
    ELSE {<<w[1].collections[i], m[1].collections[i]>> :
             i \in {k \in 1..Len(w[1].collections) : k <= Len(m[1].collections)}}

\* every collection of the file write_pb has just written, with the
\* collection it was serialized from
SerializedCollections ==
    IF phase # "written" \/ out_file = None THEN {}
    ELSE Serialized(out_file[1].boot_time_stats, perf_stats._boot_time_stats)
         \cup Serialized(out_file[1].last_n_minutes_stats,
                         perf_stats._last_n_minutes_stats)
         \cup Serialized(out_file[1].custom_collection_stats,
                         perf_stats._custom_collection_stats)

PackagesCopied(c) ==
    [j \in 1..Len(c.package_cpu_stats) |-> PackageCpuStats_pb(c.package_cpu_stats[j])]
StorageIoCopied(stats) ==
    [j \in 1..Len(stats) |-> PackageStorageIoStats_pb(stats[j])]

\* C17: every collection of the written file has as many package_cpu_stats
\* entries as the collection it was serialized from has PackageCpuStats
\* records, in the same order, each with all of its processes.
C17_PackagesOnWire ==
    \A pair \in SerializedCollections :
        pair[1].package_cpu_stats = PackagesCopied(pair[2])

\* What holds of the written file as it is: every collection carries exactly
\* one package, the last one of the latest collection that has packages.
OnePackageOnWire ==
    \A pair \in SerializedCollections : Len(pair[1].package_cpu_stats) = 1

\* C18: every collection of the written file carries the read I/O stats of
\* the collection it was serialized from in package_storage_io_read_stats
\* and its write I/O stats in package_storage_io_write_stats, each with the
\* same length and order.
C18_StorageIoOnWire ==
    \A pair \in SerializedCollections :
        /\ pair[1].package_storage_io_read_stats
               = StorageIoCopied(pair[2].package_storage_io_read_stats)
        /\ pair[1].package_storage_io_write_stats
               = StorageIoCopied(pair[2].package_storage_io_write_stats)

\* What holds of the written file as it is: no collection carries storage
\* I/O stats.
NoStorageIoOnWire ==
    \A pair \in SerializedCollections :
        /\ pair[1].package_storage_io_read_stats = <<>>
        /\ pair[1].package_storage_io_write_stats = <<>>

(***************************************************************************)
(* Properties of the PerformanceStats read back from a file.               *)
(***************************************************************************)
HasCollections(w) == w # None /\ w[1].collections # <<>>

\* the SystemEventStats holding the collections of wire aggregate w in order
InWireOrder(w) ==
    SystemEventStats([i \in 1..Len(w[1].collections) |->
                         StatsCollection_from_pb(w[1].collections[i])])

\* the getter returned a SystemEventStats with the collections of w
ReadBack(w, got, empty) ==
    HasCollections(w) => (empty = Ok(FALSE) /\ got = Ok(Some(InWireOrder(w))))

\* C19: when the message read by read_performance_stats_pb has at least one
\* collection in an aggregate, the PerformanceStats returned says is_empty()
\* == False and the getter of that aggregate returns a SystemEventStats
\* holding the collections of the message in wire order.
C19_ReadBackNotEmpty ==
    (phase = "read" /\ read_result[1].exc = "" /\ read_result[1].val # None) =>
        /\ ReadBack(out_file[1].boot_time_stats,
                    get_boot_time_stats(read_result[1].val[1]),
                    PerformanceStats_is_empty(read_result[1].val[1]))
        /\ ReadBack(out_file[1].last_n_minutes_stats,
                    get_last_n_minutes_stats(read_result[1].val[1]),
                    PerformanceStats_is_empty(read_result[1].val[1]))
        /\ ReadBack(out_file[1].custom_collection_stats,
                    get_custom_collection_stats(read_result[1].val[1]),
                    PerformanceStats_is_empty(read_result[1].val[1]))

\* What holds of the PerformanceStats read back as it is: it says it is
\* empty and every getter returns None, whatever the message holds.
ReadBackIsEmpty ==
    (phase = "read" /\ read_result[1].exc = "" /\ read_result[1].val # None) =>
        /\ PerformanceStats_is_empty(read_result[1].val[1]) = Ok(TRUE)
        /\ get_boot_time_stats(read_result[1].val[1]) = Ok(None)
        /\ get_last_n_minutes_stats(read_result[1].val[1]) = Ok(None)
        /\ get_custom_collection_stats(read_result[1].val[1]) = Ok(None)

\* ... while the collections of the message are held, in wire order, in
\* attributes that no method reads.
ReadBackHeldAside ==
    (phase = "read" /\ read_result[1].exc = "" /\ read_result[1].val # None) =>
        /\ HasCollections(out_file[1].boot_time_stats) =>
              read_result[1].val[1].boot_time_stats
                  = Some(InWireOrder(out_file[1].boot_time_stats))
        /\ HasCollections(out_file[1].last_n_minutes_stats) =>
              read_result[1].val[1].last_n_minutes_stats
                  = Some(InWireOrder(out_file[1].last_n_minutes_stats))

(***************************************************************************)
(* Properties of the custom-collection section.                            *)
(***************************************************************************)
\* the collection of the custom section of CustomSectionDumps, known by the
\* id and the date of its header
CustomCollection(c) == c.id = 1 /\ c.date # None

\* C20: when parse_dump returns on a dump with a custom-collection header, a
\* dashed line, one collection with data and the dashed terminator,
\* get_custom_collection_stats() returns a SystemEventStats containing that
\* collection, with or without boot-time and last-N-minutes sections.
C20_CustomSectionParsed ==
    (pc = "done" /\ lines \in CustomSectionDumps) =>
        /\ get_custom_collection_stats(performance_stats).exc = ""
        /\ get_custom_collection_stats(performance_stats).val # None
        /\ get_custom_collection_stats(performance_stats).val[1].type
               = "SystemEventStats"
        /\ \E i \in 1..Len(get_custom_collection_stats(performance_stats)
                               .val[1].collections) :
              CustomCollection(get_custom_collection_stats(performance_stats)
                                   .val[1].collections[i])

\* What holds instead: the collection is parsed and stored, in a list where
\* a SystemEventStats is expected, and the getter raises AttributeError.
CustomSectionStoredAsList ==
    (pc = "done" /\ lines \in CustomSectionDumps) =>
        /\ get_custom_collection_stats(performance_stats) = Raise("AttributeError")
        /\ performance_stats._custom_collection_stats # None
        /\ performance_stats._custom_collection_stats[1].type = "list"
        /\ \E i \in 1..Len(performance_stats._custom_collection_stats[1].collections) :
              CustomCollection(
                  performance_stats._custom_collection_stats[1].collections[i])

(***************************************************************************)
(* Properties of the order of the CPU records.                             *)
(***************************************************************************)
\* the members of a set of positions, in increasing order
RECURSIVE InOrder(_)
InOrder(S) ==
    IF S = {} THEN <<>>
    ELSE <<CHOOSE i \in S : \A j \in S : i <= j>>
         \o InOrder(S \ {CHOOSE i \in S : \A j \in S : i <= j})

\* the positions of the "Top N CPU Times:" headers of a dump, in order, and
\* the position of the section-end line that closes the subsection of the
\* header at h
CpuHeaders(ls) == InOrder({i \in 1..Len(ls) : ls[i] = TopNCpuTimesHeader})
SectionEndAfter(ls, h) ==
    CHOOSE e \in (h + 1)..Len(ls) :
        /\ _is_stats_section_end(ls[e])
        /\ \A i \in (h + 1)..(e - 1) : ~ _is_stats_section_end(ls[i])

\* the package line a process line at i belongs to: the nearest package line
\* before it in the subsection that starts after h (0: none)
OwnerOf(ls, h, i) ==
    IF \E p \in (h + 1)..(i - 1) : IsPackageLine(ls[p])
    THEN CHOOSE p \in (h + 1)..(i - 1) :
            /\ IsPackageLine(ls[p])
            /\ \A q \in (p + 1)..(i - 1) : ~ IsPackageLine(ls[q])
    ELSE 0

ProcessesOwnedBy(ls, h, e, p) ==
    InOrder({i \in (h + 1)..(e - 1) : IsProcessLine(ls[i]) /\ OwnerOf(ls, h, i) = p})
ProcessRecords(ls, Q) == [j \in 1..Len(Q) |-> ProcessOnLine(ls[Q[j]])]
PackageRecords(ls, h, e, P) ==
    [k \in 1..Len(P) |->
        [PackageOnLine(ls[P[k]]) EXCEPT
            !.process_cpu_stats =
                ProcessRecords(ls, ProcessesOwnedBy(ls, h, e, P[k]))]]

\* the records of the subsection of the header at h: one package per package
\* line, in line order, each with the processes it owns, in line order
SubsectionRecords(ls, h) ==
    PackageRecords(ls, h, SectionEndAfter(ls, h),
        InOrder({i \in (h + 1)..(SectionEndAfter(ls, h) - 1) : IsPackageLine(ls[i])}))

CpuSubsectionsParsed(cs, ls, H) ==
    /\ Len(cs) = Len(H)
    /\ \A k \in 1..Len(H) :
          cs[k].package_cpu_stats = SubsectionRecords(ls, H[k])

\* C21: every process line is appended to the package of the nearest package
\* line before it in the same "Top N CPU Times" subsection, never to an
\* earlier package or to a package of another subsection; packages and the
\* processes of each package are in the order of their lines.
C21_ProcessesUnderLatestPackage ==
    (pc = "done" /\ lines \in CpuOrderDumps) =>
        CpuSubsectionsParsed(ParsedCollections(performance_stats), lines,
                             CpuHeaders(lines))

C21_Witness ==
    /\ pc = "done"
    /\ lines = <<BootHeader, CollectionHeader, TopNCpuTimesHeader, PackageLine,
                 ProcessLine, OtherPackageLine, OtherProcessLine,
                 ProcessLineNoCycles, SecondCollectionHeader, TopNCpuTimesHeader,
                 OtherProcessLine, OtherPackageLineNoCycles, ProcessLine,
                 Terminator>>
    /\ Len(ParsedCollections(performance_stats)) = 2
    /\ Len(ParsedCollections(performance_stats)[1].package_cpu_stats[1]
               .process_cpu_stats) = 1
    /\ Len(ParsedCollections(performance_stats)[1].package_cpu_stats[2]
               .process_cpu_stats) = 2
    /\ ParsedCollections(performance_stats)[1].package_cpu_stats[2]
           .process_cpu_stats[1].command = "com.example.other_process"
    /\ Len(ParsedCollections(performance_stats)[2].package_cpu_stats) = 1
    /\ ParsedCollections(performance_stats)[2].package_cpu_stats[1]
           .process_cpu_stats[1].command = "com.example.app_process"

(***************************************************************************)
(* Properties of the counters of a collection.                             *)
(***************************************************************************)
\* C22: a line "Total CPU cycles: N" of a collection block sets
\* total_cpu_cycles of the collection parsed to N, which is then the value
\* to_dict reports and the value write_pb puts in the message.
C22_TotalCpuCyclesSet ==
    (pc = "done" /\ lines \in CpuCyclesDumps) =>
        /\ Len(ParsedCollections(performance_stats)) = 1
        /\ ParsedCollections(performance_stats)[1].total_cpu_cycles = 7000
        /\ StatsCollection_to_dict(ParsedCollections(performance_stats)[1])
               .total_cpu_cycles = 7000
        /\ StatsCollection_pb(ParsedCollections(performance_stats)[1])
               .total_cpu_cycles = 7000

\* What holds instead: the number goes to an attribute total_cycles that
\* nothing reads, and total_cpu_cycles keeps the 0 of the constructor.
TotalCpuCyclesSetAside ==
    (pc = "done" /\ lines \in CpuCyclesDumps) =>
        /\ Len(ParsedCollections(performance_stats)) = 1
        /\ ParsedCollections(performance_stats)[1].total_cycles = Some(7000)
        /\ ParsedCollections(performance_stats)[1].total_cpu_cycles = 0
        /\ StatsCollection_to_dict(ParsedCollections(performance_stats)[1])
               .total_cpu_cycles = 0
        /\ StatsCollection_pb(ParsedCollections(performance_stats)[1])
               .total_cpu_cycles = 0

(***************************************************************************)
(* Properties of one iteration of _parse_collection.                       *)
(***************************************************************************)
FieldPatterns ==
    {TOTAL_CPU_TIME_PATTERN, TOTAL_CPU_CYCLES_PATTERN, TOTAL_IDLE_CPU_TIME_PATTERN,
     CPU_IO_WAIT_TIME_PATTERN, CONTEXT_SWITCHES_PATTERN,
     IO_BLOCKED_PROCESSES_PATTERN, MAJOR_PAGE_FAULTS_PATTERN}
SubsectionHeaderPatterns ==
    {[lead |-> FALSE, texts |-> {TOP_N_CPU_TIME_HEADER}],
     TOP_N_STORAGE_IO_READS_HEADER_PATTERN, TOP_N_STORAGE_IO_WRITES_HEADER_PATTERN}
Matched(patterns, line) == {p \in patterns : fullmatch(p, line)}

\* the attributes in which two collections differ
FieldsChanged(c, d) == {f \in DOMAIN c : c[f] # d[f]}

\* the line _parse_collection is about to read is a line of the collection
\* block: not the header of the next collection, not the terminator
InCollectionBlock ==
    /\ pc = "_parse_collection" /\ idx < Len(lines)
    /\ ~ fullmatch(STATS_COLLECTION_PATTERN, strip(lines[idx + 1]))
    /\ ~ StartsWithDashes(strip(lines[idx + 1]), COLLECTION_END_LINE_MIN_LEN)

OneFieldPerLine(line) ==
    /\ Cardinality(Matched(FieldPatterns \cup SubsectionHeaderPatterns, line)) <= 1
    /\ Matched(SubsectionHeaderPatterns, line) = {} =>
          /\ pc' = pc /\ idx' = idx + 1
          /\ Cardinality(FieldsChanged(cur_collection[1], cur_collection'[1])) <= 1
          /\ Matched(FieldPatterns, line) = {} => cur_collection' = cur_collection
          /\ Matched(FieldPatterns, line) # {} =>
                \E f \in DOMAIN cur_collection[1] :
                    cur_collection'[1]
                        = [cur_collection[1] EXCEPT ![f] = cur_collection'[1][f]]

\* C23: a line of a collection block matches at most one of the field and
\* subsection-header patterns; a line that is no subsection header changes
\* at most one field of the collection and moves the cursor by exactly one
\* line, and changes no field when it matches no pattern.
C23_OneFieldPerLine ==
    [][InCollectionBlock => OneFieldPerLine(strip(lines[idx + 1]))]_vars

\* a "Number of context switches" line has set its one field, and the
\* "Total CPU time (ms)" line after it, which matches no pattern, none
C23_Witness ==
    /\ pc = "_parse_collection" /\ idx = 4
    /\ lines[3] = ContextSwitchesLine /\ lines[4] = TotalCpuTimeLine
    /\ cur_collection[1]
           = [StatsCollection EXCEPT !.id = 1, !.date = Some(SampleDate),
                                     !.context_switches = 50]

(***************************************************************************)
(* Properties of the end of a subsection.                                  *)
(***************************************************************************)
SubParsers ==
    {"_parse_cpu_stats", "_parse_storage_io_stats(read)",
     "_parse_storage_io_stats(write)"}

\* a line that starts with "Top N", a collection header, or a terminator
IsSectionEndLine(line) ==
    /\ ~ line.lead
    /\ \/ line.text \in {"Top N CPU Times:", "Top N Storage I/O Reads:",
                         "Top N Reads:", "Top N Storage I/O Writes:",
                         "Top N Writes:", "Top N Major Page Faults:"}
       \/ line.text = "Collection #: <@>"
       \/ (line.text = "-" /\ line.nums[1] >= 50)

\* one iteration of a sub-parser: it returns to _parse_collection with the
\* cursor on the section-end line, and goes on to the next line otherwise
SubParserStep ==
    (pc \in SubParsers /\ idx < Len(lines)) =>
        IF IsSectionEndLine(lines[idx + 1])
        THEN pc' = "_parse_collection" /\ idx' = idx
        ELSE pc' = pc /\ idx' = idx + 1

StorageIoRecords(n) == [i \in 1..n |-> PackageStorageIoStatsOf(StorageIoLine)]
Count(ls, line) == Cardinality({i \in 1..Len(ls) : ls[i] = line})
After(ls, line) ==
    SubSeq(ls, 1 + CHOOSE i \in 1..Len(ls) : ls[i] = line, Len(ls))
Before(ls, line) ==
    SubSeq(ls, 1, (CHOOSE i \in 1..Len(ls) : ls[i] = line) - 1)
FirstBlock(ls) ==
    IF Contains(ls, SecondCollectionHeader) THEN Before(ls, SecondCollectionHeader)
    ELSE ls

\* the subsections of a collection block that starts after its header: the
\* lines of each are under its own header
BlockParsed(c, block) ==
    /\ Len(c.package_cpu_stats)
          = Count(block, PackageLine) + Count(block, OtherPackageLine)
    /\ c.package_storage_io_read_stats
          = StorageIoRecords(IF Contains(block, TopNReadsHeader) THEN 1 ELSE 0)
    /\ c.package_storage_io_write_stats
          = StorageIoRecords(IF Contains(block, TopNWritesHeader)
                             THEN Count(After(block, TopNWritesHeader), StorageIoLine)
                             ELSE 0)

SubsectionsParsed(cs, ls) ==
    /\ Len(cs) = 1 + Count(ls, SecondCollectionHeader)
    /\ cs[1].id = 1 /\ BlockParsed(cs[1], FirstBlock(ls))
    /\ Len(cs) = 2 =>
          cs[2].id = 2 /\ BlockParsed(cs[2], After(ls, SecondCollectionHeader))

\* C24: a sub-parser stops at the first section-end line with the cursor on
\* that line; the entries under a "Top N ... Reads:" or "Writes:" header that
\* follows a CPU subsection are in the same collection as the CPU records,
\* and a collection header that ends a subsection starts the next collection.
C24_SubParserStopsAtSectionEnd ==
    /\ [][SubParserStep]_vars
    /\ []((pc = "done" /\ lines \in SubsectionDumps) =>
             SubsectionsParsed(ParsedCollections(performance_stats), lines))

C24_Witness ==
    /\ pc = "done"
    /\ lines = <<BootHeader, CollectionHeader, TopNCpuTimesHeader, PackageLine,
                 ProcessLine, TopNReadsHeader, StorageIoLine, TopNWritesHeader,
                 StorageIoLine, StorageIoLine, SecondCollectionHeader,
                 TopNWritesHeader, StorageIoLine, Terminator>>
    /\ Len(ParsedCollections(performance_stats)) = 2
    /\ Len(ParsedCollections(performance_stats)[1].package_cpu_stats) = 1
    /\ Len(ParsedCollections(performance_stats)[1].package_storage_io_read_stats) = 1
    /\ Len(ParsedCollections(performance_stats)[1].package_storage_io_write_stats) = 2
    /\ ParsedCollections(performance_stats)[2].id = 2
    /\ Len(ParsedCollections(performance_stats)[2].package_storage_io_write_stats) = 1

(***************************************************************************)
(* Properties of the collections kept by _parse_stats_collections.         *)
(***************************************************************************)
\* C25: a collection that is empty after parsing is not added to its
\* SystemEventStats: the header "Collection 1: <date>" followed by no data
\* line before the next collection header or the terminator contributes no
\* collection to the result.
C25_HeaderOnlyCollectionDiscarded ==
    (pc = "done" /\ lines \in HeaderOnlyDumps) =>
        /\ \A i \in 1..Len(ParsedCollections(performance_stats)) :
              ~ StatsCollection_is_empty(ParsedCollections(performance_stats)[i])
        /\ \A i \in 1..Len(ParsedCollections(performance_stats)) :
              ParsedCollections(performance_stats)[i].id # 1

\* What holds instead: the header gives the collection its id and its date,
\* is_empty() is then false, and the collection is added with nothing else
\* in it.
HeaderOnlyCollectionKept ==
    (pc = "done" /\ lines \in HeaderOnlyDumps) =>
        /\ \A i \in 1..Len(ParsedCollections(performance_stats)) :
              ~ StatsCollection_is_empty(ParsedCollections(performance_stats)[i])
        /\ ParsedCollections(performance_stats)[1]
               = [StatsCollection EXCEPT !.id = 1, !.date = Some(SampleDate)]


\* what perf_stats_parser.parse_dump gives for the dump
OldParsed == parse_dump(lines, 0, Old_PerformanceStats)

Old_CollectionsOf(field) == IF field = None THEN <<>> ELSE field[1].collections

\* the collections of the earlier parser's result, boot-time then custom
OldParsedCollections ==
    Old_CollectionsOf(OldParsed.val.boot_time_stats)
        \o Old_CollectionsOf(OldParsed.val.custom_collection_stats)

SameCollection(o, n) ==
    /\ o.id = n.id /\ o.date = n.date
    /\ o.total_cpu_time_ms = n.total_cpu_time_ms
    /\ o.idle_cpu_time_ms = n.idle_cpu_time_ms
    /\ o.io_wait_time_ms = n.io_wait_time_ms
    /\ o.context_switches = n.context_switches
    /\ o.io_blocked_processes = n.io_blocked_processes
    /\ o.package_cpu_stats = n.package_cpu_stats

SameCollections(os, ns) ==
    /\ Len(os) = Len(ns)
    /\ \A i \in 1..Len(os) : SameCollection(os[i], ns[i])

\* C26: on a dump made of old-schema elements only, parse_dump of
\* carwatchdog_dump_parser.py gives the collections that parse_dump of
\* perf_stats_parser.py gives: the same ids, dates, five counters and
\* package and process records.
C26_ParsersAgreeOnOldSchema ==
    (pc = "done" /\ lines \in OldSchemaDumps) =>
        /\ exc = "" /\ OldParsed.exc = ""
        /\ SameCollections(OldParsedCollections, ParsedCollections(performance_stats))

HasMsLine(ls) ==
    \E i \in 1..Len(ls) : ls[i] \in {TotalCpuTimeLine, TotalIdleCpuTimeLine, IoWaitMsLine}

\* the two parsers agree on the old-schema dumps that have no line with
\* "(ms)", and on the others they agree on everything but the three times
ParsersAgreeButOnTimes ==
    (pc = "done" /\ lines \in OldSchemaDumps) =>
        /\ exc = "" /\ OldParsed.exc = ""
        /\ Len(OldParsedCollections) = Len(ParsedCollections(performance_stats))
        /\ \A i \in 1..Len(OldParsedCollections) :
              LET o == OldParsedCollections[i]
                  n == ParsedCollections(performance_stats)[i]
              IN  /\ o.id = n.id /\ o.date = n.date
                  /\ o.context_switches = n.context_switches
                  /\ o.io_blocked_processes = n.io_blocked_processes
                  /\ o.package_cpu_stats = n.package_cpu_stats
                  /\ ~ HasMsLine(lines) => SameCollection(o, n)
                  /\ n.total_cpu_time_ms = 0 /\ n.idle_cpu_time_ms = 0
                  /\ n.io_wait_time_ms = 0

\* the earlier parser reads the three times
OldParserReadsTimes ==
    (pc = "done" /\ lines \in OldSchemaDumps) =>
        \A i \in 1..Len(OldParsedCollections) :
            /\ Contains(lines, TotalCpuTimeLine)
                  => OldParsedCollections[i].total_cpu_time_ms = 1000
            /\ Contains(lines, IoWaitMsLine)
                  => OldParsedCollections[i].io_wait_time_ms = 30


\* the places of the collection headers of a dump, in dump order
HeaderPlaces(ls) ==
    SelectSeq([i \in 1..Len(ls) |-> i],
              LAMBDA i : fullmatch(STATS_COLLECTION_PATTERN, strip(ls[i])))

\* the lines between the k-th header and the next header or the last line
BlockOf(ls, k) ==
    SubSeq(ls, HeaderPlaces(ls)[k] + 1,
           (IF k < Len(HeaderPlaces(ls)) THEN HeaderPlaces(ls)[k + 1] ELSE Len(ls)) - 1)

ValueIn(block, line) == IF Contains(block, line) THEN line.nums[1] ELSE 0

\* the collection of a header and of the data lines of its block
CollectionOfBlock(header, block) ==
    [StatsCollection EXCEPT
        !.id = header.nums[1], !.date = strptime(header.name),
        !.context_switches = ValueIn(block, ContextSwitchesLine),
        !.major_page_faults = ValueIn(block, MajorPageFaultsLine),
        !.io_blocked_processes = ValueIn(block, IoBlockedLine)]

OneCollectionPerHeader(ls, cs) ==
    /\ Len(cs) = Len(HeaderPlaces(ls))
    /\ \A k \in 1..Len(cs) :
          cs[k] = CollectionOfBlock(ls[HeaderPlaces(ls)[k]], BlockOf(ls, k))

\* C27: in a section ended by the dashed line, the aggregate holds one
\* collection per collection header, in dump order, each with the id of its
\* own header and the values of the data lines between its header and the
\* next header or the dashed line.
C27_OneCollectionPerHeader ==
    (pc = "done" /\ lines \in MultiCollectionDumps) =>
        /\ exc = ""
        /\ OneCollectionPerHeader(lines, CollectionsOf(performance_stats._boot_time_stats))

\* two collections, the second header first in number, each with a value of
\* its own for the context switches
C27_Witness ==
    /\ pc = "done" /\ exc = ""
    /\ lines = <<BootHeader, SecondCollectionHeader, ContextSwitchesLine,
                 CollectionHeader, IoBlockedLine, Terminator>>
    /\ Len(CollectionsOf(performance_stats._boot_time_stats)) = 2
    /\ CollectionsOf(performance_stats._boot_time_stats)[1].id = 2
    /\ CollectionsOf(performance_stats._boot_time_stats)[1].context_switches = 50
    /\ CollectionsOf(performance_stats._boot_time_stats)[2].id = 1
    /\ CollectionsOf(performance_stats._boot_time_stats)[2].context_switches = 0
    /\ CollectionsOf(performance_stats._boot_time_stats)[2].io_blocked_processes = 2


IsDashedLine(ls, j) ==
    j \in 1..Len(ls) /\ StartsWithDashes(strip(ls[j]), COLLECTION_END_LINE_MIN_LEN)

\* every section header has its dashed terminator further down; the custom
\* header has the dashed line right under it and the terminator after that
ProperlyTerminated(ls) ==
    \A i \in 1..Len(ls) :
        /\ (\/ fullmatch(BOOT_TIME_REPORT_HEADER_PATTERN, strip(ls[i]))
            \/ equals(strip(ls[i]), PERIODIC_COLLECTION_HEADER)
            \/ equals(strip(ls[i]), LAST_N_MINS_COLLECTION_HEADER))
              => \E j \in (i + 1)..Len(ls) : IsDashedLine(ls, j)
        /\ equals(strip(ls[i]), CUSTOM_COLLECTION_REPORT_HEADER)
              => /\ IsDashedLine(ls, i + 1)
                 /\ \E j \in (i + 2)..Len(ls) : IsDashedLine(ls, j)

\* one step of the parser and the cursor.  An iteration of the scan of
\* parse_dump on a boot-time or periodic header is the call of
\* _parse_stats_collections at the header, the steps of the callee, and the
\* "idx += 1" at the return; on the custom header it starts with "idx += 2"
\* and the return adds nothing.  An iteration of an inner loop is one step
\* that stays in the loop or calls the loop below; the step that leaves a loop
\* is the test of its condition.
CursorStep ==
    /\ idx' >= idx
    /\ (pc = "parse_dump" /\ pc' = "parse_dump") => idx' = idx + 1
    /\ (pc = "parse_dump" /\ pc' = "_parse_stats_collections")
          => idx' = idx + (IF section' = "custom_collection" THEN 2 ELSE 0)
    /\ (pc = "_parse_stats_collections" /\ pc' = "parse_dump")
          => idx' = idx + (IF section = "custom_collection" THEN 0 ELSE 1)
    /\ (pc = "_parse_stats_collections"
           /\ pc' \in {"_parse_stats_collections", "_parse_collection"})
          => idx' = idx + 1
    /\ (pc = "_parse_collection" /\ pc' \in {"_parse_collection"} \cup SubParsers)
          => idx' = idx + 1
    /\ (pc \in SubParsers /\ pc' = pc) => idx' = idx + 1

\* the loops of parse_dump and of the functions it calls
ParserLoops ==
    {"parse_dump", "_parse_stats_collections", "_parse_collection"} \cup SubParsers

\* C28: the cursor never decreases; a turn of the scan of parse_dump moves it
\* by one line, by two on the custom header, and by one more at the return from
\* a boot-time or periodic section; every turn of an inner loop moves it by one
\* line; and on a dump whose sections are properly terminated no read goes past
\* the last line and parse_dump leaves its loops: it returns, or raises the
\* ValueError of a date.
C28_ParseDumpTerminates ==
    /\ [][CursorStep]_vars
    /\ [](ProperlyTerminated(lines) => (idx <= Len(lines) /\ exc # "IndexError"))
    /\ (ProperlyTerminated(lines) ~> (pc \notin ParserLoops))

\* parse_dump has returned at the end of a dump with a custom section and a
\* boot-time section with a CPU subsection
C28_Witness ==
    /\ pc = "done" /\ exc = "" /\ idx = Len(lines)
    /\ ProperlyTerminated(lines)
    /\ Contains(lines, CustomHeader) /\ Contains(lines, TopNCpuTimesHeader)
    /\ performance_stats._custom_collection_stats # None


\* the place of the first dashed line at or after line i
SectionEnd(ls, i) ==
    CHOOSE j \in i..Len(ls) :
        IsDashedLine(ls, j) /\ \A k \in i..(j - 1) : ~ IsDashedLine(ls, k)

\* the section that starts with the header at line i, terminator included
SectionLines(ls, i) == SubSeq(ls, i, SectionEnd(ls, i))

\* the collections that the lines of one section describe
CollectionsOfSection(sec) ==
    [k \in 1..Len(HeaderPlaces(sec)) |->
        CollectionOfBlock(sec[HeaderPlaces(sec)[k]], BlockOf(sec, k))]

\* the places of the sections under one of the headers that describe a
\* collection
NonEmptyOccurrences(ls, headers) ==
    {i \in 1..Len(ls) : /\ ls[i] \in headers
                        /\ CollectionsOfSection(SectionLines(ls, i)) # <<>>}

Last(S) == CHOOSE i \in S : \A j \in S : j <= i

\* the collections of the last section under one of the headers that
\* describes a collection; none when there is no such section
LastNonEmptyOccurrence(ls, headers) ==
    IF NonEmptyOccurrences(ls, headers) = {} THEN <<>>
    ELSE CollectionsOfSection(SectionLines(ls, Last(NonEmptyOccurrences(ls, headers))))

\* C29: when a boot-time header, or a periodic header under either label,
\* occurs more than once, the stored aggregate is the one of the last
\* occurrence that parsed to a non-empty aggregate: an empty occurrence leaves
\* the stored one as it is, and the collections of two occurrences are not
\* put together.
C29_LastNonEmptyOccurrenceWins ==
    (pc = "done" /\ lines \in RepeatedSectionDumps) =>
        /\ CollectionsOf(performance_stats._boot_time_stats)
              = LastNonEmptyOccurrence(lines, {BootHeader, BootCollectionHeader})
        /\ CollectionsOf(performance_stats._last_n_minutes_stats)
              = LastNonEmptyOccurrence(lines, {PeriodicHeader, LastNHeader})
        /\ (performance_stats._boot_time_stats = None
              <=> NonEmptyOccurrences(lines, {BootHeader, BootCollectionHeader}) = {})

\* three boot-time sections: collection 1, then collection 2, then none; the
\* aggregate is collection 2 alone
C29_Witness ==
    /\ pc = "done"
    /\ lines = <<BootHeader, CollectionHeader, ContextSwitchesLine, Terminator,
                 BootCollectionHeader, SecondCollectionHeader, Terminator,
                 BootHeader, Terminator>>
    /\ Len(CollectionsOf(performance_stats._boot_time_stats)) = 1
    /\ CollectionsOf(performance_stats._boot_time_stats)[1].id = 2
    /\ CollectionsOf(performance_stats._boot_time_stats)[1].context_switches = 0


\* the lines of a dump before its "Top N Major Page Faults:" header
BeforeUnknownHeader(ls) == Before(ls, TopNMajorPageFaultsHeader)

\* the records of the subsection, if any, that stands before the header
RecordsBeforeUnknownHeader(c, ls) ==
    /\ c.package_cpu_stats =
          IF Contains(BeforeUnknownHeader(ls), TopNCpuTimesHeader)
          THEN <<PackageOnLine(PackageLine)>> ELSE <<>>
    /\ c.package_storage_io_read_stats =
          IF Contains(BeforeUnknownHeader(ls), TopNReadsHeader)
          THEN StorageIoRecords(1) ELSE <<>>
    /\ c.package_storage_io_write_stats =
          IF Contains(BeforeUnknownHeader(ls), TopNWritesHeader)
          THEN StorageIoRecords(1) ELSE <<>>

\* C30: a "Top N" header that is not the CPU-times header nor a storage I/O
\* reads or writes header ends the sub-parser that runs, and the lines under
\* it, whatever their shape, add no record to package_cpu_stats,
\* package_storage_io_read_stats or package_storage_io_write_stats.
C30_UnknownTopNAddsNothing ==
    (pc = "done" /\ lines \in UnknownTopNDumps) =>
        /\ Len(CollectionsOf(performance_stats._boot_time_stats)) = 1
        /\ RecordsBeforeUnknownHeader(
               CollectionsOf(performance_stats._boot_time_stats)[1], lines)

\* a CPU subsection of one package, then the other header with a package
\* line and a process line under it: the collection has the one package, and
\* the package has no process
C30_Witness ==
    /\ pc = "done"
    /\ lines = <<BootHeader, CollectionHeader, TopNCpuTimesHeader, PackageLine,
                 TopNMajorPageFaultsHeader, OtherPackageLine, ProcessLine,
                 Terminator>>
    /\ CollectionsOf(performance_stats._boot_time_stats)[1].package_cpu_stats
          = <<PackageOnLine(PackageLine)>>

====
